---- MODULE Spec2Model ----
(***************************************************************************)
(* A state-machine model of two subsystems of the gossip repository:       *)
(*                                                                         *)
(*  - the deniable block store (gossip-storage): block.rs,                 *)
(*    block_manager.rs, session.rs, crypto.rs, blob.rs, fs.rs;             *)
(*  - the session protocol (wasm): crypto-agraphon/agraphon.rs,            *)
(*    sessions/session.rs, sessions/session_manager.rs.                    *)
(*                                                                         *)
(* Cryptography is symbolic.  A ciphertext is a record naming its key and  *)
(* its plaintext; decryption succeeds exactly when the key matches and the *)
(* ciphertext is read at its own address with its own length.  Random      *)
(* bytes never decrypt.                                                    *)
(***************************************************************************)
EXTENDS Integers, Sequences, FiniteSets, TLC

(***************************************************************************)
(* Bounds of the model.                                                    *)
(***************************************************************************)
\* largest logical offset a write_data or read_data call starts at
MaxOffset == 1
\* largest number of bytes of one write_data call
MaxLen == 1
\* largest number of bytes of one read_data call
MaxReadLen == 2
\* number of write_data calls of a run
MaxWrites == 2
\* number of lock calls that close a session of one password in a run
MaxLocks == 1
\* number of successful create_session calls with one password in a run
MaxCreates == 1
\* number of managers dropped without lock in a run
MaxDrops == 1
\* number of times something other than the program writes slots in a run
MaxCorruptions == 2
\* PaddingValues.block_size_min scaled down: smallest block size drawn
BlockSizeMin == 6
\* PaddingValues.pareto_min scaled down: smallest padding drawn
ParetoMin == 1

\* PaddingValues.block_size_max scaled down likewise: two block sizes
BlockSizeMax == BlockSizeMin + 1

\* PaddingValues.pareto_max scaled down to pareto_min: one padding length
ParetoMax == ParetoMin

\* number of announcements a manager creates in a run
MaxAnnouncements == 1
\* number of messages sent in a run
MaxSends == 2
\* number of messages sent in a run of SpecLag
MaxLagSends == 4
\* the messages one manager sends while the session status is followed
MaxStatusSends == 1
\* number of announcements a manager creates in a run of SpecAgree
MaxAgreeAnnouncements == 2
\* lock calls per password where a session is closed twice
MaxConvergeLocks == 2
\* slots written by flush_data or lock before the manager stops
MaxSlotPrefix == 3
\* largest clock reading
MaxTime == 1
\* SessionManagerConfig.max_session_lag_length scaled down
MaxSessionLagLength == 3
\* SessionManagerConfig.max_incoming_message_age_millis scaled down
MaxIncomingMessageAge == 0
\* SessionManagerConfig.max_incoming_message_future_millis scaled down
MaxIncomingMessageFuture == 0
\* SessionManagerConfig.max_incoming_announcement_age_millis scaled down
MaxIncomingAnnouncementAge == 0
\* SessionManagerConfig.max_incoming_announcement_future_millis scaled down
MaxIncomingAnnouncementFuture == 0
\* SessionManagerConfig.max_session_inactivity_millis scaled down
MaxSessionInactivity == 0
\* SessionManagerConfig.keep_alive_interval_millis scaled down
KeepAliveInterval == 0

(***************************************************************************)
(* Constants of the program.                                               *)
(***************************************************************************)
SLOTS_PER_SESSION == 46
AEAD_TAG_SIZE == 16
ALLOCATION_ENTRY_SIZE == 56
BLOCK_HEADER_SIZE == 4
TABLE_HEADER_SIZE == 4
ZERO_FILL_STEP == 4096

\* The passwords a caller may present.
Passwords == {"p", "q"}

None == [none |-> TRUE]

IsNone(x) == "none" \in DOMAIN x

Min(a, b) == IF a <= b THEN a ELSE b

Max(a, b) == IF a >= b THEN a ELSE b

\* a - b on unsigned integers, stopping at zero
saturating_sub(a, b) == IF a >= b THEN a - b ELSE 0

Zeros(n) == [i \in 1..n |-> 0]

SetMax(S) == CHOOSE x \in S : \A y \in S : y <= x

VARIABLES
  \* which slot-index assignment the key derivation produces
  slot_assignment,
  \* the addressing blob: slot index -> encrypted slot or random bytes
  addressing,
  \* TRUE once init_storage has written the addressing blob
  addressing_ready,
  \* the data blob: address -> ciphertext written there
  data_blob,
  \* size of the data blob in bytes
  data_size,
  \* SessionManager.session: None or the unlocked Session
  session,
  \* source of fresh block ids
  next_block_id,
  \* the last operation and what it returned
  ret,
  \* history of the run, read by the properties only
  hist

dbs_vars == <<slot_assignment, addressing, addressing_ready, data_blob, data_size,
              session, next_block_id, ret, hist>>

(***************************************************************************)
(* block.rs: AllocationEntry and AllocationTable.  A table is the sequence *)
(* of its entries in insertion order.                                      *)
(***************************************************************************)
contains_offset(e, logical_offset) ==
  /\ logical_offset >= e.inner_data_offset
  /\ logical_offset < e.inner_data_offset + e.inner_length

end_offset(e) == e.inner_data_offset + e.inner_length

\* index of the first entry containing the offset, 0 when there is none
find_block(table, logical_offset) ==
  LET hits == {i \in 1..Len(table) : contains_offset(table[i], logical_offset)}
  IN IF hits = {} THEN 0 ELSE CHOOSE i \in hits : \A j \in hits : i <= j

find_by_id(table, block_id) ==
  LET hits == {i \in 1..Len(table) : table[i].block_id = block_id}
  IN IF hits = {} THEN 0 ELSE CHOOSE i \in hits : \A j \in hits : i <= j

next_logical_offset(table) ==
  IF table = <<>> THEN 0 ELSE SetMax({end_offset(table[i]) : i \in 1..Len(table)})

\* length of AllocationTable::to_bytes
table_bytes_len(table) == TABLE_HEADER_SIZE + Len(table) * ALLOCATION_ENTRY_SIZE

\* AllocationTable::to_bytes and from_bytes: the entry count and the entries
table_to_bytes(table) == [num_entries |-> Len(table), entries |-> table]

table_from_bytes(bytes) ==
  IF bytes.num_entries > Len(bytes.entries) THEN None
  ELSE [entries |-> SubSeq(bytes.entries, 1, bytes.num_entries)]

(***************************************************************************)
(* block.rs: DecryptedBlock.                                               *)
(***************************************************************************)
new_empty(entry, capacity) ==
  [entry |-> entry, data |-> Zeros(capacity), used_length |-> 0, dirty |-> TRUE]

capacity(block) == Len(block.data)

read_or_zero(block, offset_in_block, len) ==
  [i \in 1..len |->
     IF offset_in_block + i <= block.used_length
     THEN block.data[offset_in_block + i] ELSE 0]

block_write(block, offset_in_block, bytes) ==
  LET end == offset_in_block + Len(bytes)
  IN IF end > Len(block.data) THEN block
     ELSE [block EXCEPT
             !.data = [i \in 1..Len(block.data) |->
                         IF i > offset_in_block /\ i <= end
                         THEN bytes[i - offset_in_block] ELSE block.data[i]],
             !.used_length = Max(block.used_length, end),
             !.dirty = TRUE]

\* the plaintext of a block: the used_length header followed by the data
to_plaintext(block) == [used_length |-> block.used_length, data |-> block.data]

\* mutant of from_plaintext: the data of the block is not taken over
from_plaintext_blank(entry, plaintext) ==
  IF plaintext.used_length > Len(plaintext.data) THEN None
  ELSE [entry |-> entry, data |-> [i \in 1..Len(plaintext.data) |-> 0],
        used_length |-> plaintext.used_length, dirty |-> FALSE]

\* None when the header claims more than the plaintext holds
from_plaintext(entry, plaintext) ==
  IF plaintext.used_length > Len(plaintext.data) THEN None
  ELSE [entry |-> entry, data |-> plaintext.data,
        used_length |-> plaintext.used_length, dirty |-> FALSE]

(***************************************************************************)
(* fs.rs and crypto.rs.  The data blob maps an address to the ciphertext   *)
(* written there: [len, key, pt].  Padding is random bytes and is no       *)
(* ciphertext, so it only moves the end of the file.                       *)
(***************************************************************************)
root_key(password) == <<"root", password>>

derive_block_key(password, block_id) == <<"block", password, block_id>>

encrypt(plaintext, plaintext_len, key) ==
  [len |-> plaintext_len + AEAD_TAG_SIZE, key |-> key, pt |-> plaintext]

\* write_bytes(FILE_DATA, ...): what the written range overlaps is destroyed
fs_write(blob, address, ciphertext) ==
  LET kept == {a \in DOMAIN blob :
                 a + blob[a].len <= address \/ address + ciphertext.len <= a}
  IN (address :> ciphertext) @@ [a \in kept |-> blob[a]]

\* read_bytes(FILE_DATA, address, len) followed by AEAD decryption with key
decrypt_at(blob, address, len, key) ==
  IF address \in DOMAIN blob /\ blob[address].len = len /\ blob[address].key = key
  THEN blob[address].pt ELSE None

\* what draw_block_size_with_config may return
Capacities == BlockSizeMin..BlockSizeMax

\* what generate_pareto_padding_with_config may return
Paddings == ParetoMin..ParetoMax

Draws == [cap : Capacities, pad : Paddings]

\* the draw of an operation that pads and allocates no block
PadDraw(pad) == <<[cap |-> BlockSizeMin, pad |-> pad]>>

(***************************************************************************)
(* block_manager.rs.  The operations work on a record w holding the block  *)
(* manager (bm), the data blob (blob, size), the block id source (nid),    *)
(* the random draws still to be consumed (draws), the id of the block the  *)
(* last lookup returned (id) and whether an error was returned (err).      *)
(***************************************************************************)
bm_new(password, root_address) ==
  [session_key |-> password,
   allocation_table |-> <<>>,
   root_address |-> root_address,
   root_outer_length |-> table_bytes_len(<<>>) + AEAD_TAG_SIZE,
   cache |-> <<>>,
   allocation_table_dirty |-> FALSE,
   logical_size |-> 0]

\* the cache is a function from block ids to decrypted blocks
cache_insert(cache, block_id, block) ==
  (block_id :> block) @@ cache

allocate_new_block(w, logical_offset) ==
  LET d == Head(w.draws)
      block_id == w.nid
      data_capacity == d.cap - BLOCK_HEADER_SIZE
      block_address == w.size + d.pad
      entry == [inner_data_offset |-> logical_offset,
                inner_length |-> data_capacity,
                address |-> block_address,
                outer_length |-> 0,
                block_id |-> block_id]
      block == new_empty(entry, data_capacity)
      ciphertext == encrypt(to_plaintext(block), BLOCK_HEADER_SIZE + data_capacity,
                            derive_block_key(w.bm.session_key, block_id))
      final_entry == [entry EXCEPT !.outer_length = ciphertext.len]
  IN [w EXCEPT
        !.blob = fs_write(w.blob, block_address, ciphertext),
        !.size = Max(w.size + d.pad, block_address + ciphertext.len),
        !.nid = w.nid + 1,
        !.draws = Tail(w.draws),
        !.id = block_id,
        !.bm.allocation_table = Append(w.bm.allocation_table, final_entry),
        !.bm.allocation_table_dirty = TRUE,
        !.bm.cache = cache_insert(w.bm.cache, block_id,
                                  [block EXCEPT !.entry = final_entry])]

ensure_block_for_offset(w, offset) ==
  LET table == w.bm.allocation_table
      i == find_block(table, offset)
  IN IF i # 0 THEN [w EXCEPT !.id = table[i].block_id]
     ELSE IF /\ table # <<>>
             /\ offset >= table[Len(table)].inner_data_offset
             /\ offset < end_offset(table[Len(table)])
          THEN [w EXCEPT !.id = table[Len(table)].block_id]
          ELSE allocate_new_block(w, offset)

ensure_block_cached(w, block_id) ==
  IF block_id \in DOMAIN w.bm.cache THEN w
  ELSE LET i == find_by_id(w.bm.allocation_table, block_id)
       IN IF i = 0 THEN [w EXCEPT !.err = TRUE]
          ELSE LET entry == w.bm.allocation_table[i]
                   plaintext == decrypt_at(w.blob, entry.address, entry.outer_length,
                                           derive_block_key(w.bm.session_key, block_id))
               IN IF plaintext = None THEN [w EXCEPT !.err = TRUE]
                  ELSE IF from_plaintext(entry, plaintext) = None
                       THEN [w EXCEPT !.err = TRUE]
                       ELSE [w EXCEPT !.bm.cache =
                               cache_insert(w.bm.cache, block_id,
                                            from_plaintext(entry, plaintext))]

SubSeqFrom(s, n) == SubSeq(s, n, Len(s))

\* one write into the cached block id, advancing logical_size
write_into(w, block_id, offset, bytes) ==
  LET block == w.bm.cache[block_id]
      offset_in_block == offset - block.entry.inner_data_offset
  IN [w EXCEPT
        !.bm.cache[block_id] = block_write(block, offset_in_block, bytes),
        !.bm.logical_size = Max(w.bm.logical_size, offset + Len(bytes))]

RECURSIVE bm_write_loop(_, _, _)
bm_write_loop(w, offset, remaining) ==
  IF remaining = <<>> \/ w.err THEN w
  ELSE
    LET w1 == ensure_block_for_offset(w, offset)
        w2 == ensure_block_cached(w1, w1.id)
    IN IF w2.err THEN w2
       ELSE
         LET block == w2.bm.cache[w2.id]
             offset_in_block == offset - block.entry.inner_data_offset
             available == saturating_sub(capacity(block), offset_in_block)
             to_write == Min(Len(remaining), available)
         IN IF to_write > 0
            THEN bm_write_loop(
                   write_into(w2, w2.id, offset, SubSeq(remaining, 1, to_write)),
                   offset + to_write, SubSeqFrom(remaining, to_write + 1))
            ELSE
              LET w3 == allocate_new_block(w2, offset)
                  new_to_write == Min(Len(remaining), capacity(w3.bm.cache[w3.id]))
              IN bm_write_loop(
                   write_into(w3, w3.id, offset, SubSeq(remaining, 1, new_to_write)),
                   offset + new_to_write, SubSeqFrom(remaining, new_to_write + 1))

bm_write(w, logical_offset, bytes) == bm_write_loop(w, logical_offset, bytes)

RECURSIVE bm_read_loop(_, _, _, _)
bm_read_loop(w, current_offset, remaining, result) ==
  IF remaining = 0 \/ w.err THEN [w EXCEPT !.out = result]
  ELSE
    LET i == find_block(w.bm.allocation_table, current_offset)
    IN IF i # 0
       THEN
         LET entry == w.bm.allocation_table[i]
             w1 == ensure_block_cached(w, entry.block_id)
         IN IF w1.err THEN w1
            ELSE
              LET block == w1.bm.cache[entry.block_id]
                  offset_in_block == current_offset - entry.inner_data_offset
                  available == saturating_sub(block.used_length, offset_in_block)
                  to_read == Min(remaining, available)
                  capacity_remaining == saturating_sub(entry.inner_length, offset_in_block)
                  to_fill == Min(remaining, capacity_remaining)
              IN IF to_read > 0
                 THEN bm_read_loop(w1, current_offset + to_read, remaining - to_read,
                                   result \o read_or_zero(block, offset_in_block, to_read))
                 ELSE IF to_fill > 0
                      THEN bm_read_loop(w1, current_offset + to_fill, remaining - to_fill,
                                        result \o Zeros(to_fill))
                      ELSE [w1 EXCEPT !.out = result]
       ELSE
         LET to_fill == Min(remaining, ZERO_FILL_STEP)
         IN bm_read_loop(w, current_offset + to_fill, remaining - to_fill,
                         result \o Zeros(to_fill))

\* the bytes returned are in out, padded with zeros to len
bm_read(w, logical_offset, len) ==
  LET r == bm_read_loop(w, logical_offset, len, <<>>)
  IN IF r.err THEN r ELSE [r EXCEPT !.out = r.out \o Zeros(len - Len(r.out))]

encrypt_root_block(table, password) ==
  encrypt(table_to_bytes(table), table_bytes_len(table), root_key(password))

\* mutant of write_root_block: a grown root block is written where the old
\* one was
write_root_block_in_place(w) ==
  LET ciphertext == encrypt_root_block(w.bm.allocation_table, w.bm.session_key)
      new_length == ciphertext.len
  IN [w EXCEPT
        !.blob = fs_write(w.blob, w.bm.root_address, ciphertext),
        !.size = Max(w.size, w.bm.root_address + new_length),
        !.draws = IF new_length > w.bm.root_outer_length \/ w.bm.root_outer_length = 0
                  THEN Tail(w.draws) ELSE w.draws,
        !.bm.root_outer_length = new_length]

\* write_root_block: a grown root block moves behind fresh padding
write_root_block(w) ==
  LET ciphertext == encrypt_root_block(w.bm.allocation_table, w.bm.session_key)
      new_length == ciphertext.len
      pad == Head(w.draws).pad
      new_root_address == w.size + pad
  IN IF new_length > w.bm.root_outer_length \/ w.bm.root_outer_length = 0
     THEN [w EXCEPT
             !.blob = fs_write(w.blob, new_root_address, ciphertext),
             !.size = Max(w.size + pad, new_root_address + new_length),
             !.draws = Tail(w.draws),
             !.bm.root_address = new_root_address,
             !.bm.root_outer_length = new_length]
     ELSE [w EXCEPT
             !.blob = fs_write(w.blob, w.bm.root_address, ciphertext),
             !.size = Max(w.size, w.bm.root_address + new_length),
             !.bm.root_outer_length = new_length]

\* the data blob after every dirty cached block is written at its address
RECURSIVE write_dirty_blocks(_, _, _)
write_dirty_blocks(blob, bm, ids) ==
  IF ids = {} THEN blob
  ELSE LET id == CHOOSE x \in ids : TRUE
           block == bm.cache[id]
           ciphertext == encrypt(to_plaintext(block), BLOCK_HEADER_SIZE + capacity(block),
                                 derive_block_key(bm.session_key, id))
       IN write_dirty_blocks(
            IF block.dirty THEN fs_write(blob, block.entry.address, ciphertext) ELSE blob,
            bm, ids \ {id})

\* bm_flush without step 1: dirty blocks are not written back
bm_flush_root_only(w) ==
  LET w2 == IF w.bm.allocation_table_dirty
            THEN [write_root_block(w) EXCEPT !.bm.allocation_table_dirty = FALSE]
            ELSE w
  IN [w2 EXCEPT !.bm.cache = [id \in DOMAIN w2.bm.cache |->
                                [w2.bm.cache[id] EXCEPT !.dirty = FALSE]]]

bm_flush(w) ==
  LET w1 == [w EXCEPT !.blob = write_dirty_blocks(w.blob, w.bm, DOMAIN w.bm.cache)]
      w2 == IF w1.bm.allocation_table_dirty
            THEN [write_root_block(w1) EXCEPT !.bm.allocation_table_dirty = FALSE]
            ELSE w1
  IN [w2 EXCEPT !.bm.cache = [id \in DOMAIN w2.bm.cache |->
                                [w2.bm.cache[id] EXCEPT !.dirty = FALSE]]]

\* BlockManager::load: None when the root block cannot be read back
bm_load(blob, password, root_address, root_outer_length) ==
  IF root_outer_length = 0
  THEN [bm_new(password, root_address) EXCEPT !.root_outer_length = 0]
  ELSE LET plaintext == decrypt_at(blob, root_address, root_outer_length,
                                   root_key(password))
       IN IF plaintext = None THEN None
          ELSE IF table_from_bytes(plaintext) = None THEN None
               ELSE [session_key |-> password,
                     allocation_table |-> table_from_bytes(plaintext).entries,
                     root_address |-> root_address,
                     root_outer_length |-> root_outer_length,
                     cache |-> <<>>,
                     allocation_table_dirty |-> FALSE,
                     logical_size |->
                       next_logical_offset(table_from_bytes(plaintext).entries)]

(***************************************************************************)
(* crypto.rs and blob.rs: the 46 slots of a session.  A slot of the        *)
(* addressing blob holds [key, address, length]: the slot key it was       *)
(* encrypted under and the SlotContent.  Random bytes carry RandomKey.     *)
(***************************************************************************)
Positions == 0..(SLOTS_PER_SESSION - 1)

PasswordNumber(password) == IF password = "p" THEN 0 ELSE 1

\* derive_slot_index_from_expander: the slot index of a position.  Indices
\* may collide: under the assignment "collide" positions 0 and 1 of "p" and
\* position 0 of "q" share one slot.
derive_slot_index(assignment, password, position) ==
  IF assignment = "collide" /\ position <= 1 - PasswordNumber(password)
  THEN 0
  ELSE PasswordNumber(password) * SLOTS_PER_SESSION + position

SlotIndices == 0..(2 * SLOTS_PER_SESSION - 1)

slot_key(password, position) == <<password, position>>

RandomKey == <<"random", 0>>

RandomSlot == [key |-> RandomKey, address |-> 0, length |-> 0]

encrypt_slot(address, length, key) ==
  [key |-> key, address |-> address, length |-> length]

\* decrypt_slot: TRUE when the slot decrypts under the key
decrypt_slot_ok(slot, key) == slot.key = key

\* the addressing blob after the positions of the sequence order are written,
\* one after the other, with the pointer (address, length)
RECURSIVE write_slots(_, _, _, _, _, _)
write_slots(blob, assignment, password, order, address, length) ==
  IF order = <<>> THEN blob
  ELSE write_slots(
         [blob EXCEPT ![derive_slot_index(assignment, password, Head(order))] =
            encrypt_slot(address, length, slot_key(password, Head(order)))],
         assignment, password, Tail(order), address, length)

\* the positions in the order the loops visit them
AllPositions == [i \in 1..SLOTS_PER_SESSION |-> i - 1]

\* the positions of a set in ascending order
Ascending(S) == SelectSeq(AllPositions, LAMBDA pos : pos \in S)

\* scan_counts with the scan stopping at the first slot that decrypts
scan_counts_short_circuit(blob, assignment, password) ==
  LET found == {pos \in Positions :
                  decrypt_slot_ok(blob[derive_slot_index(assignment, password, pos)],
                                  slot_key(password, pos))}
      scanned == IF found = {} THEN SLOTS_PER_SESSION
                 ELSE 1 + CHOOSE pos \in found : \A other \in found : pos <= other
  IN [slot_reads |-> scanned, decrypt_attempts |-> scanned]

\* the loop of unlock_with_keys from a position on: every position reads its
\* slot and tries to decrypt it, whatever the result
RECURSIVE scan_from(_, _, _, _)
scan_from(blob, assignment, password, position) ==
  IF position >= SLOTS_PER_SESSION
  THEN [slot_reads |-> 0, decrypt_attempts |-> 0]
  ELSE LET rest == scan_from(blob, assignment, password, position + 1)
       IN [slot_reads |-> rest.slot_reads + 1,
           decrypt_attempts |-> rest.decrypt_attempts + 1]

\* unlock_with_keys: how many slots it reads and tries to decrypt
scan_counts(blob, assignment, password) == scan_from(blob, assignment, password, 0)

\* unlock_with_keys: the positions whose slot decrypts
valid_slots(blob, assignment, password) ==
  {pos \in Positions :
     decrypt_slot_ok(blob[derive_slot_index(assignment, password, pos)],
                     slot_key(password, pos))}

(***************************************************************************)
(* History variables.                                                      *)
(***************************************************************************)
ShadowPositions == 0..(MaxOffset + Max(MaxLen, MaxReadLen) - 1)

ReadArgs == (0..MaxOffset) \X (1..MaxReadLen)

\* after_unlock: the call before the lock was the unlock_session that
\* opened the session
NoView == [password |-> "", flushed |-> FALSE, pending |-> FALSE,
           allocated |-> FALSE, reads |-> <<>>, after_unlock |-> FALSE]

\* what the files hold of a session: the operation that persisted it last,
\* the bytes written until then, what read_data returned then and where the
\* root block was written
NotPersisted ==
  [op |-> "", shadow |-> [i \in ShadowPositions |-> 0], reads |-> <<>>,
   root |-> [address |-> 0, length |-> 0]]

HistInit ==
  [shadow |-> [pw \in Passwords |-> [i \in ShadowPositions |-> 0]],
   writes |-> 0,
   locks |-> [pw \in Passwords |-> 0],
   creates |-> [pw \in Passwords |-> 0],
   \* a session of the password was created and flush_data returned since
   durable |-> [pw \in Passwords |-> FALSE],
   \* the unlocked session was created and never locked since
   never_locked |-> FALSE,
   \* flush_data returned and nothing was written since
   flushed |-> FALSE,
   \* the last write_data call
   last_write |-> [offset |-> 0, bytes |-> <<>>],
   \* what the last lock found
   lock_view |-> NoView,
   \* the unlocked session is the one the last lock closed, not written since
   reopened |-> FALSE,
   \* the number of managers dropped
   drops |-> 0,
   \* the password of the session a dropped manager held, "" after an unlock
   dropped |-> "",
   \* the unlocked session was held by a dropped manager, not written since
   recovered |-> FALSE,
   persisted |-> [pw \in Passwords |-> NotPersisted],
   \* what was written to the slots by something other than the program
   corruptions |-> <<>>,
   \* the unlocked session is one that was locked before, not written since
   restored |-> FALSE,
   \* the positions written since flush_data or lock last returned, as of the
   \* call that a manager was stopped in
   torn |-> {}]

\* what the last call returned; out holds the bytes read_data returned, the
\* size data_size returned, for unlock_session the password of the call and
\* how many slots the call read, tried to decrypt and wrote, and for
\* flush_data and lock how many slots the call wrote
Ret(op, result, out) == [op |-> op, result |-> result, out |-> out]

\* the record the block manager operations work on
World(bm, draws) ==
  [bm |-> bm, blob |-> data_blob, size |-> data_size, nid |-> next_block_id,
   draws |-> draws, id |-> 0, err |-> FALSE, out |-> <<>>]

\* what read_data(offset, len) returns in the current state
ReadNow(offset, len) ==
  bm_read(World(session.block_manager, <<>>), offset, len)

AllReads == [a \in ReadArgs |-> ReadNow(a[1], a[2]).out]

\* what read_data returns once an operation left the world w
ReadsAfter(w) ==
  [a \in ReadArgs |->
     bm_read([w EXCEPT !.draws = <<>>, !.err = FALSE, !.out = <<>>], a[1], a[2]).out]

Expected(password, offset, len) ==
  [i \in 1..len |-> hist.shadow[password][offset + i - 1]]

(***************************************************************************)
(* session.rs: SessionManager.                                             *)
(***************************************************************************)
DbsInit ==
  /\ slot_assignment = "distinct"
  /\ addressing = [i \in SlotIndices |-> RandomSlot]
  /\ addressing_ready = FALSE
  /\ data_blob = <<>>
  /\ data_size = 0
  /\ session = None
  /\ next_block_id = 1
  /\ ret = Ret("new", "Ok", <<>>)
  /\ hist = HistInit

init_storage ==
  /\ addressing_ready' = TRUE
  /\ addressing' = IF addressing_ready THEN addressing
                   ELSE [i \in SlotIndices |-> RandomSlot]
  /\ ret' = Ret("init_storage", "Ok", <<>>)
  /\ UNCHANGED <<slot_assignment, data_blob, data_size, session, next_block_id, hist>>

\* checked_add with the current file size ignored
add_from_start(current_size, pareto_padding) == pareto_padding

\* u64::checked_add of the file size and the padding: the root address
checked_add(current_size, pareto_padding) == current_size + pareto_padding

create_session(password) ==
  /\ addressing_ready
  /\ hist.creates[password] < MaxCreates
  /\ IF ~IsNone(session)
     THEN /\ ret' = Ret("create_session", "AlreadyUnlocked", <<>>)
          /\ UNCHANGED <<slot_assignment, addressing, addressing_ready, data_blob,
                         data_size, session, next_block_id, hist>>
     ELSE \E pad \in Paddings :
            LET root_address == checked_add(data_size, pad)
                block_manager == bm_new(password, root_address)
                ciphertext == encrypt_root_block(<<>>, password)
                root_length == block_manager.root_outer_length
            IN /\ data_blob' = fs_write(data_blob, root_address, ciphertext)
               /\ data_size' = Max(data_size + pad, root_address + ciphertext.len)
               /\ addressing' = write_slots(addressing, slot_assignment, password,
                                            AllPositions, root_address, root_length)
               /\ session' = [keys |-> password,
                              block_manager |-> block_manager,
                              last_flushed_root_address |-> root_address,
                              last_flushed_root_length |-> root_length]
               /\ ret' = Ret("create_session", "Ok", <<>>)
               /\ hist' = [hist EXCEPT
                             !.shadow[password] = [i \in ShadowPositions |-> 0],
                             !.creates[password] = @ + 1,
                             !.durable[password] = FALSE,
                             !.never_locked = TRUE,
                             !.flushed = FALSE,
                             !.reopened = FALSE,
                             !.recovered = FALSE,
                             !.restored = FALSE,
                             !.dropped = "",
                             !.persisted[password] =
                               [NotPersisted EXCEPT
                                  !.op = "create_session",
                                  !.root = [address |-> root_address,
                                            length |-> root_length]]]
               /\ UNCHANGED <<slot_assignment, addressing_ready, next_block_id>>

\* the slot content at a position of a password
slot_at(password, position) ==
  addressing[derive_slot_index(slot_assignment, password, position)]

\* in_bounds with the comparison made strict
in_bounds_strict(content) == content.address + content.length < data_size

in_bounds(content) == content.address + content.length <= data_size

root_decrypts(content, password) ==
  ~IsNone(decrypt_at(data_blob, content.address, content.length, root_key(password)))

\* good_slots with only the first slot that decrypts tried as a root pointer
good_slots_first_valid_only(password) ==
  LET valid == valid_slots(addressing, slot_assignment, password)
  IN {pos \in valid :
        /\ \A other \in valid : pos <= other
        /\ in_bounds(slot_at(password, pos))
        /\ root_decrypts(slot_at(password, pos), password)}

\* the valid positions whose pointer is in bounds and decrypts as a root block
good_slots(password) ==
  {pos \in valid_slots(addressing, slot_assignment, password) :
     /\ in_bounds(slot_at(password, pos))
     /\ root_decrypts(slot_at(password, pos), password)}

\* the first good position: the candidate unlock_session uses
successful_position(password) ==
  CHOOSE pos \in good_slots(password) : \A q \in good_slots(password) : pos <= q

\* corrupted_positions with every position rewritten
every_position(password) == AllPositions

\* the positions unlock_session rewrites, in the order it rewrites them
corrupted_positions(password) ==
  LET valid == valid_slots(addressing, slot_assignment, password)
      win == successful_position(password)
      found == {pos \in valid :
                  \/ ~in_bounds(slot_at(password, pos))
                  \/ pos < win
                  \/ /\ pos > win
                     /\ \/ slot_at(password, pos).address # slot_at(password, win).address
                        \/ slot_at(password, pos).length # slot_at(password, win).length}
  IN Ascending(Positions \ valid) \o Ascending(found)

\* unlock_outcome without the check of the manager's state
unlock_outcome_any_state(password) ==
  IF valid_slots(addressing, slot_assignment, password) = {} THEN "InvalidPassword"
  ELSE IF good_slots(password) = {} THEN "InvalidPassword"
  ELSE IF IsNone(bm_load(data_blob, password,
                         slot_at(password, successful_position(password)).address,
                         slot_at(password, successful_position(password)).length))
       THEN "Storage"
  ELSE "Ok"

unlock_outcome(password) ==
  IF ~IsNone(session) THEN "AlreadyUnlocked"
  ELSE IF valid_slots(addressing, slot_assignment, password) = {} THEN "InvalidPassword"
  ELSE IF good_slots(password) = {} THEN "InvalidPassword"
  ELSE IF IsNone(bm_load(data_blob, password,
                         slot_at(password, successful_position(password)).address,
                         slot_at(password, successful_position(password)).length))
       THEN "Storage"
  ELSE "Ok"

unlock_session(password) ==
  LET outcome == unlock_outcome(password)
  IN /\ addressing_ready
     /\ IF outcome # "Ok"
        THEN /\ ret' = Ret("unlock_session", outcome,
                           IF outcome = "AlreadyUnlocked"
                           THEN <<password, 0, 0, 0>>
                           ELSE LET scan == scan_counts(addressing, slot_assignment,
                                                        password)
                                IN <<password, scan.slot_reads,
                                     scan.decrypt_attempts, 0>>)
             /\ UNCHANGED <<slot_assignment, addressing, addressing_ready, data_blob,
                            data_size, session, next_block_id, hist>>
        ELSE LET content == slot_at(password, successful_position(password))
                 block_manager == bm_load(data_blob, password, content.address,
                                          content.length)
                 scan == scan_counts(addressing, slot_assignment, password)
                 corrupted == corrupted_positions(password)
             IN /\ addressing' = write_slots(addressing, slot_assignment, password,
                                             corrupted,
                                             block_manager.root_address,
                                             block_manager.root_outer_length)
                /\ session' = [keys |-> password,
                               block_manager |-> block_manager,
                               last_flushed_root_address |-> block_manager.root_address,
                               last_flushed_root_length |->
                                 block_manager.root_outer_length]
                /\ ret' = Ret("unlock_session", outcome,
                              <<password, scan.slot_reads, scan.decrypt_attempts,
                                Len(corrupted)>>)
                /\ hist' = [hist EXCEPT
                              !.reopened = (hist.lock_view.password = password),
                              !.recovered = (hist.dropped = password),
                              !.restored = (hist.persisted[password].op = "lock"),
                              !.dropped = "",
                              !.flushed = FALSE]
                /\ UNCHANGED <<slot_assignment, addressing_ready, data_blob, data_size,
                               next_block_id>>

\* root_moved with the comparison left out
root_moved_always(bm, s) == TRUE

\* the root block is not where the session recorded it at the last slot write
root_moved(bm, s) ==
  \/ bm.root_address # s.last_flushed_root_address
  \/ bm.root_outer_length # s.last_flushed_root_length

\* the slots after flush_data or lock: all rewritten when the root block moved
slots_after_flush(bm, s) ==
  IF root_moved(bm, s)
  THEN write_slots(addressing, slot_assignment, s.keys, AllPositions,
                   bm.root_address, bm.root_outer_length)
  ELSE addressing

\* how many slots flush_data or lock writes
slot_writes_of_flush(bm, s) ==
  IF root_moved(bm, s) THEN Len(AllPositions) ELSE 0

HasPending(bm) ==
  \/ bm.allocation_table_dirty
  \/ \E id \in DOMAIN bm.cache : bm.cache[id].dirty

\* lock, called at most max_locks times on the sessions of one password
lock_within(max_locks) ==
  /\ IF IsNone(session) THEN TRUE ELSE hist.locks[session.keys] < max_locks
  /\ IF IsNone(session)
     THEN /\ ret' = Ret("lock", "Ok", <<0>>)
          /\ UNCHANGED <<slot_assignment, addressing, addressing_ready, data_blob,
                         data_size, session, next_block_id, hist>>
     ELSE \E pad \in Paddings :
            LET w == bm_flush(World(session.block_manager, PadDraw(pad)))
            IN /\ ret' = Ret("lock", "Ok", <<slot_writes_of_flush(w.bm, session)>>)
               /\ data_blob' = w.blob
               /\ data_size' = w.size
               /\ addressing' = slots_after_flush(w.bm, session)
               /\ session' = None
               /\ hist' = [hist EXCEPT
                             !.locks[session.keys] = @ + 1,
                             !.never_locked = FALSE,
                             !.flushed = FALSE,
                             !.reopened = FALSE,
                             !.recovered = FALSE,
                             !.restored = FALSE,
                             !.dropped = "",
                             !.persisted[session.keys] =
                               [op |-> "lock", shadow |-> hist.shadow[session.keys],
                                reads |-> ReadsAfter(w),
                                root |-> [address |-> w.bm.root_address,
                                          length |-> w.bm.root_outer_length]],
                             !.lock_view =
                               [password |-> session.keys,
                                flushed |-> hist.flushed,
                                pending |-> HasPending(session.block_manager),
                                allocated |-> session.block_manager.allocation_table_dirty,
                                reads |-> AllReads,
                                after_unlock |->
                                  ret.op = "unlock_session" /\ ret.result = "Ok"]]
               /\ UNCHANGED <<slot_assignment, addressing_ready, next_block_id>>

lock == lock_within(MaxLocks)

SessionLocked(op) ==
  /\ ret' = Ret(op, "SessionLocked", <<>>)
  /\ UNCHANGED <<slot_assignment, addressing, addressing_ready, data_blob,
                 data_size, session, next_block_id, hist>>

read_data(offset, len) ==
  IF IsNone(session) THEN SessionLocked("read_data")
  ELSE LET w == bm_read(World(session.block_manager, <<>>), offset, len)
       IN /\ session' = [session EXCEPT !.block_manager = w.bm]
          /\ ret' = IF w.err THEN Ret("read_data", "Storage", <<>>)
                    ELSE Ret("read_data", "Ok", w.out)
          /\ UNCHANGED <<slot_assignment, addressing, addressing_ready, data_blob,
                         data_size, next_block_id, hist>>

\* the bytes of a write_data call carry the number of the call
WriteBytes(len) == [i \in 1..len |-> hist.writes + 1]

write_data(offset, bytes) ==
  /\ hist.writes < MaxWrites
  /\ IF IsNone(session) THEN SessionLocked("write_data")
     ELSE \E draws \in [1..Len(bytes) -> Draws] :
            LET w == bm_write(World(session.block_manager, draws), offset, bytes)
            IN /\ session' = [session EXCEPT !.block_manager = w.bm]
               /\ data_blob' = w.blob
               /\ data_size' = w.size
               /\ next_block_id' = w.nid
               /\ ret' = Ret("write_data", IF w.err THEN "Storage" ELSE "Ok", <<>>)
               /\ hist' = [hist EXCEPT
                             !.writes = @ + 1,
                             !.flushed = FALSE,
                             !.reopened = FALSE,
                             !.recovered = FALSE,
                             !.restored = FALSE,
                             !.last_write = [offset |-> offset, bytes |-> bytes],
                             !.shadow[session.keys] =
                               [i \in ShadowPositions |->
                                  IF i >= offset /\ i < offset + Len(bytes)
                                  THEN bytes[i - offset + 1]
                                  ELSE hist.shadow[session.keys][i]]]
               /\ UNCHANGED <<slot_assignment, addressing, addressing_ready>>

flush_data ==
  IF IsNone(session) THEN SessionLocked("flush_data")
  ELSE \E pad \in Paddings :
         LET w == bm_flush(World(session.block_manager, PadDraw(pad)))
         IN /\ data_blob' = w.blob
            /\ data_size' = w.size
            /\ addressing' = slots_after_flush(w.bm, session)
            /\ session' = [session EXCEPT
                             !.block_manager = w.bm,
                             !.last_flushed_root_address = w.bm.root_address,
                             !.last_flushed_root_length = w.bm.root_outer_length]
            /\ ret' = Ret("flush_data", "Ok", <<slot_writes_of_flush(w.bm, session)>>)
            /\ hist' = [hist EXCEPT
                          !.flushed = TRUE,
                          !.durable[session.keys] = TRUE,
                          !.persisted[session.keys] =
                            [op |-> "flush_data", shadow |-> hist.shadow[session.keys],
                             reads |-> ReadsAfter(w),
                             root |-> [address |-> w.bm.root_address,
                                       length |-> w.bm.root_outer_length]]]
            /\ UNCHANGED <<slot_assignment, addressing_ready, next_block_id>>

\* data_size: the logical size of the session's data
data_size_call ==
  IF IsNone(session) THEN SessionLocked("data_size")
  ELSE /\ ret' = Ret("data_size", "Ok", <<session.block_manager.logical_size>>)
       /\ UNCHANGED <<slot_assignment, addressing, addressing_ready, data_blob,
                      data_size, session, next_block_id, hist>>

\* the ways the tests corrupt slots: garbage bytes, a slot encrypted with the
\* right key that points beyond the end of the data file, and one that
\* points at bytes of the data file that are no root block
CorruptionKinds == {"garbage", "out_of_bounds", "bad_root"}

\* the sets of positions corrupted at once: the last, all but the last, all
CorruptedSets ==
  {{SLOTS_PER_SESSION - 1}, Positions \ {SLOTS_PER_SESSION - 1}, Positions}

\* the bytes written where a bad_root slot points
GarbageBytes == [len |-> 1, key |-> <<"garbage">>, pt |-> <<>>]

\* slots of a locked session are overwritten from outside the program
corrupt_slots(password, positions, kind) ==
  /\ IsNone(session)
  /\ hist.creates[password] > 0
  /\ Len(hist.corruptions) < MaxCorruptions
  /\ LET content ==
           IF kind = "out_of_bounds"
           THEN [address |-> data_size + 1, length |-> AEAD_TAG_SIZE]
           ELSE [address |-> data_size, length |-> GarbageBytes.len]
         position_of(i) ==
           CHOOSE pos \in positions :
             derive_slot_index(slot_assignment, password, pos) = i
         hit == {derive_slot_index(slot_assignment, password, pos) : pos \in positions}
     IN /\ addressing' =
             [i \in SlotIndices |->
                IF i \notin hit THEN addressing[i]
                ELSE IF kind = "garbage" THEN RandomSlot
                ELSE encrypt_slot(content.address, content.length,
                                  slot_key(password, position_of(i)))]
        /\ data_blob' = IF kind = "bad_root"
                        THEN fs_write(data_blob, data_size, GarbageBytes)
                        ELSE data_blob
        /\ data_size' = IF kind = "bad_root" THEN data_size + GarbageBytes.len
                        ELSE data_size
  /\ ret' = Ret("corrupt_slots", "Ok", <<>>)
  /\ hist' = [hist EXCEPT
                !.corruptions = Append(@, [positions |-> positions, kind |-> kind])]
  /\ UNCHANGED <<slot_assignment, addressing_ready, session, next_block_id>>

\* the manager is dropped without lock and SessionManager::new makes a fresh
\* one on the same files: the session, its cache and its pending writes are
\* gone, the files stay as they are
drop_manager ==
  /\ hist.drops < MaxDrops
  /\ ~IsNone(session)
  /\ session' = None
  /\ ret' = Ret("new", "Ok", <<>>)
  /\ hist' = [hist EXCEPT
                !.drops = @ + 1,
                !.dropped = session.keys,
                !.never_locked = FALSE,
                !.flushed = FALSE,
                !.reopened = FALSE,
                !.recovered = FALSE,
                !.restored = FALSE,
                !.lock_view = NoView,
                !.shadow[session.keys] = hist.persisted[session.keys].shadow]
  /\ UNCHANGED <<slot_assignment, addressing, addressing_ready, data_blob,
                 data_size, next_block_id>>

\* the positions whose last write_data is not covered by a flush_data or
\* lock that returned
WrittenSince(password) ==
  {i \in ShadowPositions :
     hist.shadow[password][i] # hist.persisted[password].shadow[i]}

\* what is known of the files once the manager stopped inside a call: as
\* after drop_manager, with the positions not covered by a completed flush
Stopped(positions) ==
  [hist EXCEPT
     !.drops = @ + 1,
     !.dropped = session.keys,
     !.never_locked = FALSE,
     !.flushed = FALSE,
     !.reopened = FALSE,
     !.recovered = FALSE,
     !.restored = FALSE,
     !.lock_view = NoView,
     !.torn = positions,
     !.shadow[session.keys] = hist.persisted[session.keys].shadow]

\* the stages of the file writes of flush_data and lock, in the order the
\* code performs them: the dirty blocks, the padding before a grown root
\* block, the root block, the slots
FlushStages == {"blocks", "padding", "root", "slots"}

\* flush_data or lock stops after a prefix of its file writes and
\* SessionManager::new makes a fresh manager on the same files.  The cache
\* is a HashMap, so the dirty blocks are written in any order and every
\* subset of them is a prefix; the padding is written in chunks; the slots
\* are written in the order of their positions.
interrupted_flush(stage, blocks, n) ==
  /\ hist.drops < MaxDrops
  /\ ~IsNone(session)
  /\ \E pad \in Paddings :
       LET bm == session.block_manager
           dirty == {id \in DOMAIN bm.cache : bm.cache[id].dirty}
           w == bm_flush(World(bm, PadDraw(pad)))
       IN /\ blocks \subseteq dirty
          /\ stage = "blocks" => n = 0
          /\ stage # "blocks" => blocks = dirty
          /\ stage \in {"padding", "root"} => bm.allocation_table_dirty
          /\ stage = "padding" => n \in 1..pad
          /\ stage = "root" => n = 0
          /\ stage = "slots" => (root_moved(w.bm, session) /\ n \in 1..SLOTS_PER_SESSION)
          /\ data_blob' = IF stage \in {"blocks", "padding"}
                          THEN write_dirty_blocks(data_blob, bm, blocks)
                          ELSE w.blob
          /\ data_size' = IF stage = "blocks" THEN data_size
                          ELSE IF stage = "padding" THEN data_size + n
                          ELSE w.size
          /\ addressing' = IF stage = "slots"
                           THEN write_slots(addressing, slot_assignment, session.keys,
                                            SubSeq(AllPositions, 1, n),
                                            w.bm.root_address, w.bm.root_outer_length)
                           ELSE addressing
  /\ session' = None
  /\ ret' = Ret("new", "Ok", <<>>)
  /\ hist' = Stopped(WrittenSince(session.keys))
  /\ UNCHANGED <<slot_assignment, addressing_ready, next_block_id>>

\* write_data(offset, bytes) stops after a prefix of its file writes and
\* SessionManager::new makes a fresh manager on the same files.  The call
\* writes to the data file when it allocates a block, first the padding and
\* then the empty block; the allocations made for the first m bytes are a
\* prefix of those of the call, and of the padding of the next one n bytes
\* are written.
interrupted_write_data(offset, bytes, m, n) ==
  /\ hist.drops < MaxDrops
  /\ hist.writes < MaxWrites
  /\ ~IsNone(session)
  /\ \E draws \in [1..Len(bytes) -> Draws] :
       LET w == bm_write(World(session.block_manager, draws), offset,
                         SubSeq(bytes, 1, m))
           next == bm_write(World(session.block_manager, draws), offset,
                            SubSeq(bytes, 1, m + 1))
       IN /\ ~w.err
          /\ IF n = 0 THEN TRUE
             ELSE /\ m < Len(bytes)
                  /\ next.nid > w.nid
                  /\ n <= Head(w.draws).pad
          /\ data_blob' = w.blob
          /\ data_size' = w.size + n
          /\ next_block_id' = w.nid
  /\ session' = None
  /\ ret' = Ret("new", "Ok", <<>>)
  /\ hist' = [Stopped(WrittenSince(session.keys)
                      \cup {i \in ShadowPositions :
                              i >= offset /\ i < offset + Len(bytes)})
                EXCEPT !.writes = @ + 1]
  /\ UNCHANGED <<slot_assignment, addressing, addressing_ready>>


(***************************************************************************)
(* Properties of the block store.                                          *)
(***************************************************************************)
\* every read_data(offset, len) returns the bytes written last, 0 where
\* nothing was written
ReadsMatchShadow ==
  \A a \in ReadArgs :
    /\ ~ReadNow(a[1], a[2]).err
    /\ ReadNow(a[1], a[2]).out = Expected(session.keys, a[1], a[2])

\* C1: after any sequence of write_data calls followed by flush_data, lock
\* and unlock_session with the same password, every read_data(offset, len)
\* returns the merge of the writes in call order (the last write wins) and 0
\* where nothing was written.
C1_ReadBackAfterFlushLockUnlock ==
  (~IsNone(session) /\ hist.reopened /\ hist.lock_view.flushed) => ReadsMatchShadow

\* C9: in a session that was not locked since it was created, after any
\* sequence of write_data calls every read_data(offset, len) returns exactly
\* len bytes, each the byte written last at its position or 0.
C9_ReadBackWithinSession ==
  (~IsNone(session) /\ hist.never_locked) => ReadsMatchShadow

\* C10: lock persists pending writes.  When lock found writes that were not
\* flushed, after unlock_session with the same password every read_data
\* returns what it returned just before the lock, and the bytes of the last
\* write_data call are read back at its offset.
C10_LockPersistsPendingWrites ==
  (~IsNone(session) /\ hist.reopened /\ hist.lock_view.pending) =>
    /\ AllReads = hist.lock_view.reads
    /\ ReadNow(hist.last_write.offset, Len(hist.last_write.bytes)).out
         = hist.last_write.bytes

\* a pending write that only modified an existing block was read back after
\* lock and unlock_session
C10_Witness ==
  /\ ~IsNone(session)
  /\ hist.reopened
  /\ hist.lock_view.pending
  /\ ~hist.lock_view.allocated
  /\ ret.op = "read_data"
  /\ ret.out = hist.last_write.bytes
  /\ Len(ret.out) > 0

\* C11: crash recovery.  Once flush_data has returned and the manager was
\* dropped without lock, after unlock_session with the same password on a
\* fresh manager every read_data(offset, len) returns the bytes written
\* before the flush, 0 where nothing was written; writes made after the
\* flush are not required to survive.
C11_ReadBackAfterDrop ==
  (/\ ~IsNone(session)
   /\ hist.recovered
   /\ hist.persisted[session.keys].op = "flush_data") =>
    \A a \in ReadArgs :
      ReadNow(a[1], a[2]).out
        = [i \in 1..a[2] |-> hist.persisted[session.keys].shadow[a[1] + i - 1]]

\* what the drop does preserve: the fresh manager reads what the dropped
\* manager read when flush_data returned
FlushedReadsSurviveDrop ==
  (/\ ~IsNone(session)
   /\ hist.recovered
   /\ hist.persisted[session.keys].op = "flush_data") =>
    AllReads = hist.persisted[session.keys].reads

\* C12: sessions with different passwords coexist on the same files.  Once
\* a session was locked, whatever create_session, write_data, flush_data and
\* lock did under another password since, unlock_session with the session's
\* password succeeds and every read_data returns what it returned when the
\* session was locked.
C12_OtherPasswordLeavesSession ==
  /\ (/\ ret.op = "unlock_session"
      /\ ret.result # "AlreadyUnlocked"
      /\ hist.persisted[ret.out[1]].op = "lock") =>
       /\ ret.result = "Ok"
       /\ ~IsNone(session)
       /\ session.keys = ret.out[1]
  /\ (~IsNone(session) /\ hist.restored) =>
       AllReads = hist.persisted[session.keys].reads

\* the session of "p" was locked, then a session of "q" was created, written,
\* flushed and locked, and the session of "p" reads its bytes again
C12_Witness ==
  /\ ~IsNone(session)
  /\ session.keys = "p"
  /\ hist.restored
  /\ hist.lock_view.password = "q"
  /\ hist.durable["q"]
  /\ \E i \in ShadowPositions : hist.shadow["q"][i] # 0
  /\ ret.op = "unlock_session"
  /\ ret.result = "Ok"
  /\ \E a \in ReadArgs : \E i \in 1..a[2] : ReadNow(a[1], a[2]).out[i] # 0

\* the files and the session are what they were
FilesAndSessionUnchanged ==
  UNCHANGED <<addressing, addressing_ready, data_blob, data_size, session,
              next_block_id>>

C16_EveryCallScansAllSlots ==
  ret.op = "unlock_session" =>
    /\ ret.out[2] = SLOTS_PER_SESSION
    /\ ret.out[3] = SLOTS_PER_SESSION

\* C16: every unlock_session call on a locked manager reads 46 slots and
\* tries to decrypt 46 slots, whether the password is right or wrong and
\* however many slots are corrupted; a call on an unlocked manager returns
\* AlreadyUnlocked and reads no slot.
C16_LockedCallScansAllSlots ==
  ret.op = "unlock_session" =>
    IF ret.result = "AlreadyUnlocked"
    THEN ret.out[2] = 0 /\ ret.out[3] = 0
    ELSE ret.out[2] = SLOTS_PER_SESSION /\ ret.out[3] = SLOTS_PER_SESSION

\* with all its slots corrupted, unlock_session with the password of the
\* session scanned the 46 slots and returned InvalidPassword
C16_Witness ==
  /\ ret.op = "unlock_session"
  /\ ret.out[1] = "p"
  /\ ret.result = "InvalidPassword"
  /\ hist.creates["p"] > 0
  /\ ret.out[2] = SLOTS_PER_SESSION
  /\ ret.out[3] = SLOTS_PER_SESSION

\* C17: a successful unlock_session writes exactly the slots of the
\* positions whose slot does not decrypt, points out of bounds, points at
\* bytes that do not decrypt as a root block or holds a pointer other than
\* that of the root block it installs, each with the pointer of that root
\* block; it writes no other slot, and none when there is no such position.
C17_HealsOnlyCorruptedSlots ==
  [][(ret'.op = "unlock_session" /\ ret'.result = "Ok") =>
       LET password == ret'.out[1]
           root_address == session'.block_manager.root_address
           root_length == session'.block_manager.root_outer_length
           index(pos) == derive_slot_index(slot_assignment, password, pos)
           detected ==
             {pos \in Positions :
                \/ ~decrypt_slot_ok(addressing[index(pos)], slot_key(password, pos))
                \/ addressing[index(pos)].address + addressing[index(pos)].length
                     > data_size
                \/ IsNone(decrypt_at(data_blob, addressing[index(pos)].address,
                                     addressing[index(pos)].length,
                                     root_key(password)))
                \/ addressing[index(pos)].address # root_address
                \/ addressing[index(pos)].length # root_length}
       IN /\ ret'.out[4] = Cardinality(detected)
          /\ \A pos \in Positions :
               addressing'[index(pos)] =
                 IF pos \in detected
                 THEN encrypt_slot(root_address, root_length, slot_key(password, pos))
                 ELSE addressing[index(pos)]
          /\ \A i \in SlotIndices :
               (\A pos \in Positions : index(pos) # i) =>
                 addressing'[i] = addressing[i]]_dbs_vars

\* unlock_session found one healthy slot and rewrote the 45 others
C17_Witness ==
  /\ ret.op = "unlock_session"
  /\ ret.result = "Ok"
  /\ ret.out[4] = SLOTS_PER_SESSION - 1
  /\ ~IsNone(session)

\* C18: slot redundancy.  unlock_session with the password of a session
\* succeeds and installs the root block the session was persisted with
\* whenever at least one of the 46 slots still holds the pointer to it,
\* whichever other positions do not decrypt, point out of bounds or point at
\* bytes that are no root block; it returns InvalidPassword only when no
\* slot yields a root block that decrypts.
C18_OneSlotSuffices ==
  [][(ret'.op = "unlock_session" /\ ret'.result # "AlreadyUnlocked") =>
       LET password == ret'.out[1]
           root == hist.persisted[password].root
           index(pos) == derive_slot_index(slot_assignment, password, pos)
           decrypts(pos) ==
             decrypt_slot_ok(addressing[index(pos)], slot_key(password, pos))
           holding == {pos \in Positions :
                         /\ decrypts(pos)
                         /\ addressing[index(pos)].address = root.address
                         /\ addressing[index(pos)].length = root.length}
           yielding == {pos \in Positions :
                          /\ decrypts(pos)
                          /\ addressing[index(pos)].address
                               + addressing[index(pos)].length <= data_size
                          /\ ~IsNone(decrypt_at(data_blob,
                                                addressing[index(pos)].address,
                                                addressing[index(pos)].length,
                                                root_key(password)))}
       IN /\ (hist.persisted[password].op # "" /\ holding # {}) =>
               /\ ret'.result = "Ok"
               /\ ~IsNone(session')
               /\ session'.keys = password
               /\ session'.block_manager.root_address = root.address
               /\ session'.block_manager.root_outer_length = root.length
          /\ ret'.result = "InvalidPassword" => yielding = {}]_dbs_vars

\* positions 0 to 44 pointed at bytes that are no root block, and
\* unlock_session installed the root block from the last slot: the bytes
\* written to the session are read
C18_Witness ==
  /\ ret.op = "unlock_session"
  /\ ret.result = "Ok"
  /\ ~IsNone(session)
  /\ \E k \in 1..Len(hist.corruptions) :
       /\ hist.corruptions[k].kind = "bad_root"
       /\ 0 \in hist.corruptions[k].positions
  /\ ret.out[4] = SLOTS_PER_SESSION - 1
  /\ \E a \in ReadArgs : \E i \in 1..a[2] : ReadNow(a[1], a[2]).out[i] # 0

\* C19: flush_data and lock write slots if and only if the root block's
\* (address, length) differs from the pair the session recorded at the last
\* slot write; then they write all 46 slots with the new pointer, and
\* otherwise (a flush with nothing to flush, a lock right after a flush) they
\* write nothing to the addressing file.
C19_SlotsRewrittenOnlyWhenRootMoved ==
  [][(ret'.op \in {"flush_data", "lock"} /\ ~IsNone(session)) =>
       LET root == hist'.persisted[session.keys].root
           index(pos) == derive_slot_index(slot_assignment, session.keys, pos)
       IN IF \/ root.address # session.last_flushed_root_address
             \/ root.length # session.last_flushed_root_length
          THEN /\ ret'.out = <<SLOTS_PER_SESSION>>
               /\ \A pos \in Positions :
                    addressing'[index(pos)] =
                      encrypt_slot(root.address, root.length,
                                   slot_key(session.keys, pos))
               /\ \A i \in SlotIndices :
                    (\A pos \in Positions : index(pos) # i) =>
                      addressing'[i] = addressing[i]
          ELSE /\ ret'.out = <<0>>
               /\ addressing' = addressing]_dbs_vars

\* a write made the root block move and flush_data rewrote the 46 slots;
\* the lock right after it wrote none
C19_Witness ==
  /\ ret.op = "lock"
  /\ ret.out = <<0>>
  /\ hist.lock_view.flushed
  /\ hist.persisted["p"].root # [address |-> 0, length |-> 0]
  /\ \A pos \in Positions :
       /\ slot_at("p", pos).address = hist.persisted["p"].root.address
       /\ slot_at("p", pos).address > ParetoMax

\* C5: on a locked manager, unlock_session(p) succeeds once create_session(p)
\* and flush_data have returned; unlock_session(p') with a password p' no
\* session was created with returns InvalidPassword, leaves the manager
\* locked and leaves both files unchanged.
C5_UnlockChecksPassword ==
  [][\A password \in Passwords :
       (IsNone(session) /\ unlock_session(password)) =>
         IF hist.durable[password]
         THEN /\ ret'.result = "Ok"
              /\ ~IsNone(session')
              /\ session'.keys = password
         ELSE hist.creates["p"] > 0 /\ password # "p" =>
                /\ ret'.result = "InvalidPassword"
                /\ IsNone(session')
                /\ addressing' = addressing
                /\ data_blob' = data_blob
                /\ data_size' = data_size]_dbs_vars

\* a wrong password was refused after a session was created, flushed and locked
C5_Witness ==
  /\ ret.op = "unlock_session"
  /\ ret.result = "InvalidPassword"
  /\ IsNone(session)
  /\ hist.durable["p"]
  /\ hist.locks["p"] > 0
  /\ hist.writes > 0

(***************************************************************************)
(* The session protocol.  Keys are symbolic: a key is a record naming the  *)
(* announcement or message that created it, and a secret key opens what    *)
(* was made for the public key of the same name.                           *)
(***************************************************************************)
Managers == {"A", "B"}

Peer(m) == IF m = "A" THEN "B" ELSE "A"

Times == 0..MaxTime

\* the key material (sk_next, pk_next, k_next) an announcement or message creates
AgraphonKey(kind, owner, n) == [kind |-> kind, owner |-> owner, n |-> n]

\* a seeker keypair: derived from two seeds, or generated for a message
SeekerKey(kind, owner, n, m) == [kind |-> kind, owner |-> owner, n |-> n, m |-> m]

\* compute_seeker: the datastore key of a seeker public key
compute_seeker(seeker_public_key) == [hash |-> seeker_public_key, suffix_ok |-> TRUE]

\* the empty seeker of the first history item
EmptySeeker == [hash |-> SeekerKey("none", "", 0, 0), suffix_ok |-> FALSE]

VARIABLES
  \* SessionManager.peers of every manager: its entry for the other manager
  peers,
  \* every announcement created, in order of creation
  announcements,
  \* every SendOutgoingMessageOutput created, in order of creation
  board,
  \* the last operation of the session protocol and what it returned
  aret,
  \* history: per manager, the contents accepted on its latest session and
  \* the seekers its feeds reported as acknowledged
  accepted,
  \* the reading of timestamp_millis() where a specification lets time pass
  clock

asp_vars == <<peers, announcements, board, aret, accepted, clock>>

(***************************************************************************)
(* crypto-agraphon/agraphon.rs.  An Agraphon is                            *)
(* [self_msg_history, latest_peer_msg]; the history is a sequence of       *)
(* [height, key, seeker], oldest first.                                    *)
(***************************************************************************)
from_announcement_pair(self_outgoing_announcement, peer_incoming_announcement) ==
  [self_msg_history |-> <<[height |-> 1,
                           key |-> self_outgoing_announcement.key,
                           seeker |-> EmptySeeker]>>,
   latest_peer_msg |-> [our_parent_height |-> 0,
                        key |-> peer_incoming_announcement.key]]

\* index in the history of the item of the height, 0 when there is none
get_self_message_by_height(agraphon, height) ==
  LET first_height == agraphon.self_msg_history[1].height
      index == height - first_height + 1
  IN IF height >= first_height /\ index <= Len(agraphon.self_msg_history)
     THEN index ELSE 0

\* mutant of decrypts_with_self_parent: the key of the latest peer message
\* takes no part in the decryption
decrypts_with_any_peer_key(agraphon, index, self_static, message) ==
  /\ index # 0
  /\ message.ok
  /\ message.to = self_static
  /\ message.p_peer = agraphon.self_msg_history[index].key

\* TRUE when the message decrypts with the history item at index as parent
decrypts_with_self_parent(agraphon, index, self_static, message) ==
  /\ index # 0
  /\ message.ok
  /\ message.to = self_static
  /\ message.p_self = agraphon.latest_peer_msg.key
  /\ message.p_peer = agraphon.self_msg_history[index].key

\* mutant of pruned_count: the parent is popped with the items below it
pruned_count_with_parent(history, our_parent_height) ==
  Cardinality({i \in 1..Len(history) : history[i].height <= our_parent_height})

\* mutant of pruned_count: at most one item is popped
pruned_count_one(history, our_parent_height) ==
  IF history # <<>> /\ Head(history).height < our_parent_height THEN 1 ELSE 0

\* the items popped from the front: those below the parent height
RECURSIVE pruned_count(_, _)
pruned_count(history, our_parent_height) ==
  IF history # <<>> /\ Head(history).height < our_parent_height
  THEN 1 + pruned_count(Tail(history), our_parent_height)
  ELSE 0

\* mutant of feed_with_self_parent: the seeker of the parent is not reported
feed_without_parent_seeker(agraphon, index, message) ==
  LET parent == agraphon.self_msg_history[index]
      popped == pruned_count(agraphon.self_msg_history, parent.height)
  IN [some |-> TRUE,
      agraphon |->
        [self_msg_history |->
           SubSeq(agraphon.self_msg_history, popped + 1,
                  Len(agraphon.self_msg_history)),
         latest_peer_msg |-> [our_parent_height |-> parent.height,
                              key |-> message.k_next]],
      message_bytes |-> message.payload,
      newly_acknowledged_self_seekers |->
        [i \in 1..popped |-> agraphon.self_msg_history[i].seeker]]

\* mutant of feed_with_self_parent: our_parent_height is one above the parent
feed_with_next_parent_height(agraphon, index, message) ==
  LET parent == agraphon.self_msg_history[index]
      popped == pruned_count(agraphon.self_msg_history, parent.height)
  IN [some |-> TRUE,
      agraphon |->
        [self_msg_history |->
           SubSeq(agraphon.self_msg_history, popped + 1,
                  Len(agraphon.self_msg_history)),
         latest_peer_msg |-> [our_parent_height |-> parent.height + 1,
                              key |-> message.k_next]],
      message_bytes |-> message.payload,
      newly_acknowledged_self_seekers |->
        [i \in 1..popped |-> agraphon.self_msg_history[i].seeker]
          \o <<parent.seeker>>]

\* mutant of feed_with_self_parent: our_parent_height is left as it was
feed_with_stale_parent_height(agraphon, index, message) ==
  LET parent == agraphon.self_msg_history[index]
      popped == pruned_count(agraphon.self_msg_history, parent.height)
  IN [some |-> TRUE,
      agraphon |->
        [self_msg_history |->
           SubSeq(agraphon.self_msg_history, popped + 1,
                  Len(agraphon.self_msg_history)),
         latest_peer_msg |->
           [our_parent_height |-> agraphon.latest_peer_msg.our_parent_height,
            key |-> message.k_next]],
      message_bytes |-> message.payload,
      newly_acknowledged_self_seekers |->
        [i \in 1..popped |-> agraphon.self_msg_history[i].seeker]
          \o <<parent.seeker>>]

\* the outcome of try_incoming_message_with_self_parent when it decrypts
feed_with_self_parent(agraphon, index, message) ==
  LET parent == agraphon.self_msg_history[index]
      popped == pruned_count(agraphon.self_msg_history, parent.height)
  IN [some |-> TRUE,
      agraphon |->
        [self_msg_history |->
           SubSeq(agraphon.self_msg_history, popped + 1,
                  Len(agraphon.self_msg_history)),
         latest_peer_msg |-> [our_parent_height |-> parent.height,
                              key |-> message.k_next]],
      message_bytes |-> message.payload,
      newly_acknowledged_self_seekers |->
        [i \in 1..popped |-> agraphon.self_msg_history[i].seeker]
          \o <<parent.seeker>>]

\* try_feed_incoming_message: the parents are tried from the newest height
\* down; [some |-> FALSE] when none decrypts
RECURSIVE agraphon_try_feed_from(_, _, _, _)
agraphon_try_feed_from(agraphon, index, self_static, message) ==
  IF index = 0 THEN [some |-> FALSE, agraphon |-> agraphon]
  ELSE IF decrypts_with_self_parent(agraphon, index, self_static, message)
       THEN feed_with_self_parent(agraphon, index, message)
       ELSE agraphon_try_feed_from(agraphon, index - 1, self_static, message)

agraphon_try_feed(agraphon, self_static, message) ==
  agraphon_try_feed_from(agraphon, Len(agraphon.self_msg_history),
                         self_static, message)

\* mutant of agraphon_send: the new item takes the height of its parent
agraphon_send_height_kept(agraphon, seeker, payload, peer_static, new_key) ==
  LET p_self == agraphon.self_msg_history[Len(agraphon.self_msg_history)]
      p_peer == agraphon.latest_peer_msg
  IN [message |-> [ok |-> TRUE, to |-> peer_static,
                   p_self |-> p_self.key, p_peer |-> p_peer.key,
                   k_next |-> new_key, payload |-> payload],
      agraphon |-> [agraphon EXCEPT
                      !.self_msg_history =
                        Append(@, [height |-> p_self.height,
                                   key |-> new_key,
                                   seeker |-> seeker])]]

\* send_outgoing_message: the message and the Agraphon after it
agraphon_send(agraphon, seeker, payload, peer_static, new_key) ==
  LET p_self == agraphon.self_msg_history[Len(agraphon.self_msg_history)]
      p_peer == agraphon.latest_peer_msg
  IN [message |-> [ok |-> TRUE, to |-> peer_static,
                   p_self |-> p_self.key, p_peer |-> p_peer.key,
                   k_next |-> new_key, payload |-> payload],
      agraphon |-> [agraphon EXCEPT
                      !.self_msg_history =
                        Append(@, [height |-> p_self.height + 1,
                                   key |-> new_key,
                                   seeker |-> seeker])]]

\* mutant of agraphon_lag_length: the number of history items kept
agraphon_lag_length_history(agraphon) == Len(agraphon.self_msg_history)

\* Agraphon::lag_length
agraphon_lag_length(agraphon) ==
  agraphon.self_msg_history[Len(agraphon.self_msg_history)].height
    - agraphon.latest_peer_msg.our_parent_height

(***************************************************************************)
(* sessions/session.rs.  A Session is [agraphon_instance, peer,            *)
(* peer_seeker_massa_keypair, self_seeker_massa_keypair] and, for the      *)
(* properties only, pair: the numbers of the two announcements it joins.   *)
(***************************************************************************)
\* OutgoingInitiationRequest::new
OutgoingInitiationRequest(owner, n, timestamp) ==
  [agraphon_announcement |-> [key |-> AgraphonKey("ann", owner, n)],
   owner |-> owner, n |-> n,
   timestamp_millis |-> timestamp]

\* the announcement bytes an OutgoingInitiationRequest is published as
announcement_bytes(owner, n, to, timestamp) ==
  [wellformed |-> TRUE, owner |-> owner, n |-> n, to |-> to,
   timestamp_millis |-> timestamp]

\* IncomingInitiationRequest::try_from: None unless the bytes are an
\* announcement made for our keys
IncomingInitiationRequest(bytes, our) ==
  IF ~bytes.wellformed \/ bytes.to # our THEN None
  ELSE [agraphon_announcement |-> [key |-> AgraphonKey("ann", bytes.owner, bytes.n)],
        origin |-> bytes.owner, n |-> bytes.n,
        timestamp_millis |-> bytes.timestamp_millis]

from_initiation_request_pair(outgoing, incoming) ==
  [agraphon_instance |-> from_announcement_pair(outgoing.agraphon_announcement,
                                                incoming.agraphon_announcement),
   peer |-> incoming.origin,
   peer_seeker_massa_keypair |-> SeekerKey("kdf", incoming.origin, incoming.n, outgoing.n),
   self_seeker_massa_keypair |-> SeekerKey("kdf", outgoing.owner, outgoing.n, incoming.n),
   pair |-> [out |-> outgoing.n, in |-> incoming.n]]

\* send_outgoing_message: n numbers the message among those of its sender
session_send(session_, self, n, contents, timestamp) ==
  LET seeker_keypair == session_.self_seeker_massa_keypair
      next_keypair == SeekerKey("gen", self, n, 0)
      seeker == compute_seeker(seeker_keypair)
      msg == [decodes |-> TRUE, timestamp |-> timestamp,
              seeker_massa_keypair_next |-> next_keypair, contents |-> contents]
      sent == agraphon_send(session_.agraphon_instance, seeker, msg, session_.peer,
                            AgraphonKey("msg", self, n))
  IN [session |-> [session_ EXCEPT
                     !.self_seeker_massa_keypair = next_keypair,
                     !.agraphon_instance = sent.agraphon],
      output |-> [timestamp |-> timestamp,
                  seeker |-> seeker,
                  data |-> [parse_ok |-> TRUE,
                            seeker_public_key |-> seeker_keypair,
                            signature_ok |-> TRUE,
                            message_bytes |-> sent.message]]]

next_peer_message_seeker(session_) == compute_seeker(session_.peer_seeker_massa_keypair)

\* mutant of session_try_feed: the seeker of the peer is never replaced
session_try_feed_keep_seeker(session_, self, seeker, data) ==
  IF \/ ~seeker.suffix_ok
     \/ ~data.parse_ok
     \/ seeker.hash # data.seeker_public_key
     \/ ~data.signature_ok
  THEN [some |-> FALSE, session |-> session_]
  ELSE LET fed == agraphon_try_feed(session_.agraphon_instance, self,
                                    data.message_bytes)
       IN IF ~fed.some THEN [some |-> FALSE, session |-> session_]
          ELSE IF ~fed.message_bytes.decodes
               THEN [some |-> FALSE,
                     session |-> [session_ EXCEPT !.agraphon_instance = fed.agraphon]]
               ELSE [some |-> TRUE,
                     session |-> [session_ EXCEPT !.agraphon_instance = fed.agraphon],
                     timestamp |-> fed.message_bytes.timestamp,
                     message |-> fed.message_bytes.contents,
                     newly_acknowledged_self_seekers |->
                       fed.newly_acknowledged_self_seekers]

\* try_feed_incoming_message: [some, session, ...]; the session is returned
\* as the call leaves it, also when it returns None
session_try_feed(session_, self, seeker, data) ==
  IF \/ ~seeker.suffix_ok
     \/ ~data.parse_ok
     \/ seeker.hash # data.seeker_public_key
     \/ ~data.signature_ok
  THEN [some |-> FALSE, session |-> session_]
  ELSE LET fed == agraphon_try_feed(session_.agraphon_instance, self,
                                    data.message_bytes)
       IN IF ~fed.some THEN [some |-> FALSE, session |-> session_]
          ELSE IF ~fed.message_bytes.decodes
               THEN [some |-> FALSE,
                     session |-> [session_ EXCEPT !.agraphon_instance = fed.agraphon]]
               ELSE [some |-> TRUE,
                     session |-> [session_ EXCEPT
                                    !.agraphon_instance = fed.agraphon,
                                    !.peer_seeker_massa_keypair =
                                      fed.message_bytes.seeker_massa_keypair_next],
                     timestamp |-> fed.message_bytes.timestamp,
                     message |-> fed.message_bytes.contents,
                     newly_acknowledged_self_seekers |->
                       fed.newly_acknowledged_self_seekers]

session_lag_length(session_) == agraphon_lag_length(session_.agraphon_instance)

(***************************************************************************)
(* sessions/session_manager.rs.  peers[m] is the entry of manager m for    *)
(* the other manager: None, or a PeerInfo                                  *)
(* [active_session, latest_incoming_init_request,                          *)
(* latest_outgoing_init_request] of options.                               *)
(***************************************************************************)
PeerInfo ==
  [active_session |-> None,
   latest_incoming_init_request |-> None,
   latest_outgoing_init_request |-> None]

\* SessionInfo with the two timestamps exchanged
SessionInfoSwapped(session_, last_incoming, last_outgoing) ==
  [session |-> session_,
   last_incoming_message_timestamp |-> last_outgoing,
   last_outgoing_message_timestamp |-> last_incoming]

SessionInfo(session_, last_incoming, last_outgoing) ==
  [session |-> session_,
   last_incoming_message_timestamp |-> last_incoming,
   last_outgoing_message_timestamp |-> last_outgoing]

\* peers.entry(peer_id).or_default()
or_default(peer_info) == IF IsNone(peer_info) THEN PeerInfo ELSE peer_info

has_active_session(peer_info) ==
  ~IsNone(peer_info) /\ ~IsNone(peer_info.active_session)

\* what an operation of the session protocol returned; keys is the list
\* get_message_board_read_keys returns, empty for every other operation
ARet(op, m, some, stage) ==
  [op |-> op, m |-> m, some |-> some, stage |-> stage, keys |-> <<>>]

NoSessionYet ==
  [pair |-> [out |-> 0, in |-> 0], msgs |-> <<>>, acked |-> {}, announced |-> -1,
   fed |-> {}]

\* the accepted contents start afresh with every session
Accepted(old, peer_info_before, peer_info_after) ==
  IF /\ has_active_session(peer_info_after)
     /\ \/ ~has_active_session(peer_info_before)
        \/ peer_info_after.active_session # peer_info_before.active_session
  THEN [pair |-> peer_info_after.active_session.session.pair, msgs |-> <<>>,
        acked |-> {}, announced |-> old.announced, fed |-> old.fed]
  ELSE old

AspInit ==
  /\ peers = [m \in Managers |-> None]
  /\ announcements = <<>>
  /\ board = <<>>
  /\ aret = ARet("new", "", FALSE, "")
  /\ accepted = [m \in Managers |-> NoSessionYet]
  /\ clock = 0

\* how many items of the sequence their owner created
CountOf(seq, m) == Cardinality({i \in 1..Len(seq) : seq[i].owner = m})

establish_outgoing_session_within(m, now, max_announcements) ==
  /\ CountOf(announcements, m) < max_announcements
  /\ LET n == CountOf(announcements, m) + 1
         outgoing_initiation_request == OutgoingInitiationRequest(m, n, now)
         before == peers[m]
         with_session ==
           IF ~IsNone(before) /\ ~IsNone(before.latest_incoming_init_request)
           THEN [before EXCEPT !.active_session =
                   SessionInfo(
                     from_initiation_request_pair(outgoing_initiation_request,
                                                  before.latest_incoming_init_request),
                     before.latest_incoming_init_request.timestamp_millis,
                     outgoing_initiation_request.timestamp_millis)]
           ELSE before
         after == [or_default(with_session) EXCEPT
                     !.latest_outgoing_init_request = outgoing_initiation_request]
     IN /\ peers' = [peers EXCEPT ![m] = after]
        /\ announcements' =
             Append(announcements, announcement_bytes(m, n, Peer(m), now))
        /\ accepted' = [accepted EXCEPT ![m] = Accepted(@, before, after)]
        /\ aret' = ARet("establish_outgoing_session", m, TRUE, "")
        /\ UNCHANGED board

\* with the number of announcements of the other specifications
establish_outgoing_session(m, now) ==
  establish_outgoing_session_within(m, now, MaxAnnouncements)

\* bytes that are no announcement
GarbageAnnouncement ==
  [wellformed |-> FALSE, owner |-> "", n |-> 0, to |-> "", timestamp_millis |-> 0]

\* out_of_window with the check against the future left out
out_of_window_age_only(timestamp, cur_timestamp, max_age, max_future) ==
  timestamp < saturating_sub(cur_timestamp, max_age)

\* the check of an incoming timestamp against the clock
out_of_window(timestamp, cur_timestamp, max_age, max_future) ==
  \/ timestamp < saturating_sub(cur_timestamp, max_age)
  \/ timestamp > cur_timestamp + max_future

\* the check that refuses an announcement, "" when it is accepted
announcement_stage_within(peer_info, request, now, max_incoming_announcement_age) ==
  IF IsNone(request) THEN "parse"
  ELSE IF request.timestamp_millis < saturating_sub(now, max_incoming_announcement_age)
       THEN "age"
  ELSE IF request.timestamp_millis > now + MaxIncomingAnnouncementFuture
       THEN "future"
  ELSE IF /\ ~IsNone(peer_info)
          /\ ~IsNone(peer_info.latest_incoming_init_request)
          /\ request.timestamp_millis
               <= peer_info.latest_incoming_init_request.timestamp_millis
       THEN "order"
  ELSE ""

\* with the configured max_incoming_announcement_age_millis
announcement_stage(peer_info, request, now) ==
  announcement_stage_within(peer_info, request, now, MaxIncomingAnnouncementAge)

feed_incoming_announcement_within(m, announcement, now, max_incoming_announcement_age) ==
  LET incoming_initiation_request == IncomingInitiationRequest(announcement, m)
      before == peers[m]
      in_window ==
        /\ ~IsNone(incoming_initiation_request)
        /\ ~out_of_window(incoming_initiation_request.timestamp_millis, now,
                          max_incoming_announcement_age,
                          MaxIncomingAnnouncementFuture)
      refused ==
        \/ IsNone(incoming_initiation_request)
        \/ out_of_window(incoming_initiation_request.timestamp_millis, now,
                         max_incoming_announcement_age,
                         MaxIncomingAnnouncementFuture)
        \/ /\ ~IsNone(before)
           /\ ~IsNone(before.latest_incoming_init_request)
           /\ incoming_initiation_request.timestamp_millis
                <= before.latest_incoming_init_request.timestamp_millis
      with_session ==
        IF ~IsNone(before) /\ ~IsNone(before.latest_outgoing_init_request)
        THEN [before EXCEPT !.active_session =
                SessionInfo(
                  from_initiation_request_pair(before.latest_outgoing_init_request,
                                               incoming_initiation_request),
                  incoming_initiation_request.timestamp_millis,
                  before.latest_outgoing_init_request.timestamp_millis)]
        ELSE before
      after == [or_default(with_session) EXCEPT
                  !.latest_incoming_init_request = incoming_initiation_request]
  IN IF refused
     THEN /\ aret' = ARet("feed_incoming_announcement", m, FALSE,
                          announcement_stage_within(before, incoming_initiation_request,
                                                    now, max_incoming_announcement_age))
          /\ accepted' =
               IF in_window
               THEN [accepted EXCEPT
                       ![m].fed = @ \cup {incoming_initiation_request.n}]
               ELSE accepted
          /\ UNCHANGED <<peers, announcements, board>>
     ELSE /\ peers' = [peers EXCEPT ![m] = after]
          /\ accepted' =
               [accepted EXCEPT
                  ![m] = [Accepted(@, before, after) EXCEPT
                            !.announced =
                              Max(@, incoming_initiation_request.timestamp_millis),
                            !.fed = @ \cup {incoming_initiation_request.n}]]
          /\ aret' = ARet("feed_incoming_announcement", m, TRUE, "")
          /\ UNCHANGED <<announcements, board>>

\* with the configured max_incoming_announcement_age_millis
feed_incoming_announcement(m, announcement, now) ==
  feed_incoming_announcement_within(m, announcement, now, MaxIncomingAnnouncementAge)

\* refresh: sessions and announcements that are too old expire; returns
\* whether the peer needs a keep-alive message
\* mutant of keep_alive_due: a session that sent at the limit is reported
keep_alive_due_at_limit(active_session, keep_alive_timestamp) ==
  active_session.last_outgoing_message_timestamp <= keep_alive_timestamp

\* the keep-alive trigger of refresh
keep_alive_due(active_session, keep_alive_timestamp) ==
  active_session.last_outgoing_message_timestamp < keep_alive_timestamp

refresh_with(m, now, max_session_inactivity, max_incoming_announcement_age) ==
  LET before == peers[m]
      oldest_message_timestamp == saturating_sub(now, max_session_inactivity)
      keep_alive_timestamp == saturating_sub(now, KeepAliveInterval)
      oldest_announcement_timestamp == 
        saturating_sub(now, max_incoming_announcement_age)
      expired_session ==
        /\ ~IsNone(before.active_session)
        /\ before.active_session.last_incoming_message_timestamp
             < oldest_message_timestamp
      expired(request) ==
        ~IsNone(request) /\ request.timestamp_millis < oldest_announcement_timestamp
      after ==
        [active_session |->
           IF expired_session THEN None ELSE before.active_session,
         latest_incoming_init_request |->
           IF expired(before.latest_incoming_init_request) THEN None
           ELSE before.latest_incoming_init_request,
         latest_outgoing_init_request |->
           IF expired(before.latest_outgoing_init_request) THEN None
           ELSE before.latest_outgoing_init_request]
  IN IF IsNone(before)
     THEN /\ aret' = ARet("refresh", m, FALSE, "")
          /\ UNCHANGED <<peers, announcements, board, accepted>>
     ELSE /\ peers' = [peers EXCEPT ![m] = after]
          /\ aret' = ARet("refresh", m,
                          /\ ~IsNone(after.active_session)
                          /\ keep_alive_due(after.active_session,
                                            keep_alive_timestamp),
                          "")
          /\ UNCHANGED <<announcements, board, accepted>>

\* with the configured max_session_inactivity_millis and
\* max_incoming_announcement_age_millis
refresh(m, now) ==
  refresh_with(m, now, MaxSessionInactivity, MaxIncomingAnnouncementAge)

\* the messages of the board their sender sent on the session of the pair
SentOn(m, pair) ==
  SelectSeq(board, LAMBDA entry : entry.owner = m /\ entry.pair = pair)

\* mutant of lag_refuses: the limit itself is allowed
lag_refuses_strict(session_) == session_lag_length(session_) > MaxSessionLagLength

\* mutant of lag_refuses: the lag is never checked
lag_refuses_never(session_) == FALSE

\* the lag check of send_message and peer_session_status
lag_refuses(session_) == session_lag_length(session_) >= MaxSessionLagLength

\* TRUE when send_message returns None
send_refused(peer_info) ==
  \/ ~has_active_session(peer_info)
  \/ lag_refuses(peer_info.active_session.session)

\* contents are tagged by sender and number, so that no two are alike
\* sends is the number of messages the run may post
send_message_within(m, now, sends) ==
  LET n == CountOf(board, m) + 1
      message == <<m, n>>
  IN IF send_refused(peers[m])
     THEN /\ aret' = ARet("send_message", m, FALSE, "")
          /\ UNCHANGED <<peers, announcements, board, accepted>>
     ELSE /\ Len(board) < sends
          /\ LET active_session == peers[m].active_session
                 send_result == session_send(active_session.session, m, n,
                                             message, now)
             IN /\ peers' = [peers EXCEPT ![m].active_session =
                               [active_session EXCEPT
                                  !.session = send_result.session,
                                  !.last_outgoing_message_timestamp =
                                    send_result.output.timestamp]]
                /\ board' = Append(board,
                                   [owner |-> m, n |-> n,
                                    pair |-> active_session.session.pair,
                                    contents |-> message,
                                    output |-> send_result.output])
                /\ aret' = ARet("send_message", m, TRUE, "")
                /\ UNCHANGED <<announcements, accepted>>

send_message(m, now) == send_message_within(m, now, MaxSends)

\* mutant of session_status: the two requested statuses change places
session_status_requests_swapped(peer_info) ==
  IF IsNone(peer_info) THEN "UnknownPeer"
  ELSE IF ~IsNone(peer_info.active_session)
  THEN IF lag_refuses(peer_info.active_session.session)
       THEN "Saturated" ELSE "Active"
  ELSE LET req_peer == ~IsNone(peer_info.latest_incoming_init_request)
           req_self == ~IsNone(peer_info.latest_outgoing_init_request)
       IN IF req_peer /\ req_self THEN "Killed"
          ELSE IF req_peer THEN "SelfRequested"
          ELSE IF req_self THEN "PeerRequested"
          ELSE "NoSession"

\* the SessionStatus peer_session_status returns for the entry of the peer
session_status(peer_info) ==
  IF IsNone(peer_info) THEN "UnknownPeer"
  ELSE IF ~IsNone(peer_info.active_session)
  THEN IF lag_refuses(peer_info.active_session.session)
       THEN "Saturated" ELSE "Active"
  ELSE LET req_peer == ~IsNone(peer_info.latest_incoming_init_request)
           req_self == ~IsNone(peer_info.latest_outgoing_init_request)
       IN IF req_peer /\ req_self THEN "Killed"
          ELSE IF req_peer THEN "PeerRequested"
          ELSE IF req_self THEN "SelfRequested"
          ELSE "NoSession"

\* peer_session_status takes &self: the status is returned in aret.stage
peer_session_status(m) ==
  /\ aret' = ARet("peer_session_status", m, TRUE, session_status(peers[m]))
  /\ UNCHANGED <<peers, announcements, board, accepted>>

\* mutant of timestamp_rejected: only the window around the clock is checked
timestamp_rejected_window_only(timestamp, cur_timestamp, last_incoming) ==
  out_of_window(timestamp, cur_timestamp,
                MaxIncomingMessageAge, MaxIncomingMessageFuture)

\* the timestamp checks of inner_feed_incoming_msg
timestamp_rejected(timestamp, cur_timestamp, last_incoming) ==
  \/ out_of_window(timestamp, cur_timestamp,
                   MaxIncomingMessageAge, MaxIncomingMessageFuture)
  \/ timestamp < last_incoming

\* [msg, peer_info]: what it returns and the entry as it leaves it
inner_feed_incoming_msg(peer_info, self, seeker, bytes, now) ==
  IF ~has_active_session(peer_info) THEN [msg |-> None, peer_info |-> peer_info]
  ELSE LET active_session == peer_info.active_session
           fed == session_try_feed(active_session.session, self, seeker, bytes)
           fed_info == [peer_info EXCEPT !.active_session.session = fed.session]
       IN IF ~fed.some THEN [msg |-> None, peer_info |-> fed_info]
          ELSE IF timestamp_rejected(fed.timestamp, now,
                                     active_session.last_incoming_message_timestamp)
               THEN [msg |-> None, peer_info |-> fed_info]
               ELSE [msg |-> [timestamp |-> fed.timestamp,
                              message |-> fed.message,
                              newly_acknowledged_self_seekers |->
                                fed.newly_acknowledged_self_seekers],
                     peer_info |->
                       [fed_info EXCEPT
                          !.active_session.last_incoming_message_timestamp =
                            fed.timestamp]]

\* get_message_board_read_keys takes &self: one seeker per active session
get_message_board_read_keys(m) ==
  /\ aret' = [ARet("get_message_board_read_keys", m, TRUE, "") EXCEPT
                !.keys = IF has_active_session(peers[m])
                         THEN <<next_peer_message_seeker(
                                  peers[m].active_session.session)>>
                         ELSE <<>>]
  /\ UNCHANGED <<peers, announcements, board, accepted>>

\* mutant of located: the seeker is not compared
located_by_session_only(peer_info, seeker) == has_active_session(peer_info)

\* TRUE when feed_incoming_message_board_read finds the session of the seeker
located(peer_info, seeker) ==
  /\ has_active_session(peer_info)
  /\ next_peer_message_seeker(peer_info.active_session.session) = seeker

\* mutant of close_session: the session is kept
keep_session(peer_info) == peer_info

\* the session has a problem: close it
close_session(peer_info) == [peer_info EXCEPT !.active_session = None]

\* which check of the feed refused the message, "" when none did
feed_stage(peer_info, self, seeker, bytes, now) ==
  IF ~located(peer_info, seeker) THEN "seeker"
  ELSE IF ~bytes.parse_ok THEN "parse"
  ELSE IF seeker.hash # bytes.seeker_public_key THEN "hash"
  ELSE IF ~bytes.signature_ok THEN "signature"
  ELSE LET active_session == peer_info.active_session
           fed == session_try_feed(active_session.session, self, seeker, bytes)
           agraphon == agraphon_try_feed(active_session.session.agraphon_instance,
                                         self, bytes.message_bytes)
       IN IF ~agraphon.some THEN "agraphon"
          ELSE IF ~fed.some THEN "decode"
          ELSE IF fed.timestamp < saturating_sub(now, MaxIncomingMessageAge)
               THEN "age"
          ELSE IF fed.timestamp > now + MaxIncomingMessageFuture THEN "future"
          ELSE IF fed.timestamp < active_session.last_incoming_message_timestamp
               THEN "order"
          ELSE ""

feed_incoming_message_board_read(m, seeker, bytes, now) ==
  LET before == peers[m]
      fed == inner_feed_incoming_msg(before, m, seeker, bytes, now)
      stage == feed_stage(before, m, seeker, bytes, now)
  IN /\ UNCHANGED <<announcements, board>>
     /\ IF ~located(before, seeker)
        THEN /\ aret' = ARet("feed_incoming_message_board_read", m, FALSE, stage)
             /\ UNCHANGED <<peers, accepted>>
        ELSE IF IsNone(fed.msg)
        THEN /\ peers' = [peers EXCEPT ![m] = close_session(fed.peer_info)]
             /\ aret' = ARet("feed_incoming_message_board_read", m, FALSE, stage)
             /\ UNCHANGED accepted
        ELSE /\ peers' = [peers EXCEPT ![m] = fed.peer_info]
             /\ aret' = ARet("feed_incoming_message_board_read", m, TRUE, stage)
             /\ accepted' =
                  [accepted EXCEPT
                     ![m].msgs = Append(@, fed.msg.message),
                     ![m].acked =
                       @ \cup {fed.msg.newly_acknowledged_self_seekers[i] :
                                 i \in 1..Len(fed.msg.newly_acknowledged_self_seekers)}]

(***************************************************************************)
(* What may be read from the message board: the messages as they were      *)
(* posted, and bytes made up from them for the seeker the reader waits on. *)
(***************************************************************************)
\* the bytes, signed again with the keypair of the seeker
resigned(bytes, seeker) == [bytes EXCEPT !.seeker_public_key = seeker.hash]

\* a payload that is no Message
UndecodablePayload ==
  [decodes |-> FALSE, timestamp |-> 0,
   seeker_massa_keypair_next |-> SeekerKey("none", "", 0, 0),
   contents |-> <<>>]

\* bytes made by who holds the keys of the peer: the session decrypts them,
\* and finds no Message in them
undecodable(session_, self) ==
  LET agraphon == session_.agraphon_instance
  IN [parse_ok |-> TRUE,
      seeker_public_key |-> session_.peer_seeker_massa_keypair,
      signature_ok |-> TRUE,
      message_bytes |->
        [ok |-> TRUE, to |-> self,
         p_self |-> agraphon.latest_peer_msg.key,
         p_peer |-> agraphon.self_msg_history[Len(agraphon.self_msg_history)].key,
         k_next |-> AgraphonKey("forged", session_.peer, 0),
         payload |-> UndecodablePayload]]

Posted == {[seeker |-> board[k].output.seeker, bytes |-> board[k].output.data] :
             k \in 1..Len(board)}

\* under the seeker the reader waits on: every posted message as it is and
\* signed again, and bytes that fail each check of the feed
MadeUp(m) ==
  IF ~has_active_session(peers[m]) THEN {}
  ELSE LET session_ == peers[m].active_session.session
           seeker == next_peer_message_seeker(session_)
           forged == undecodable(session_, m)
       IN {[seeker |-> seeker, bytes |-> forged],
           [seeker |-> seeker, bytes |-> [forged EXCEPT !.parse_ok = FALSE]],
           [seeker |-> seeker, bytes |-> [forged EXCEPT !.signature_ok = FALSE]],
           [seeker |-> seeker, bytes |-> [forged EXCEPT !.message_bytes.ok = FALSE]]}
          \cup UNION {
            {[seeker |-> seeker, bytes |-> board[k].output.data],
             [seeker |-> seeker, bytes |-> resigned(board[k].output.data, seeker)]} :
            k \in 1..Len(board)}

BoardReads(m) == Posted \cup MadeUp(m)

AnnouncementReads ==
  {announcements[k] : k \in 1..Len(announcements)} \cup {GarbageAnnouncement}

\* the session protocol with announcements and sessions that expire, and
\* no message fed
AnnNext ==
  \/ \E m \in Managers, now \in Times :
       establish_outgoing_session(m, now) /\ UNCHANGED <<dbs_vars, clock>>
  \/ \E m \in Managers, now \in Times, announcement \in AnnouncementReads :
       feed_incoming_announcement(m, announcement, now) /\ UNCHANGED <<dbs_vars, clock>>
  \/ \E m \in Managers, now \in Times :
       refresh(m, now) /\ UNCHANGED <<dbs_vars, clock>>
  \/ \E m \in Managers, now \in Times :
       send_message(m, now) /\ UNCHANGED <<dbs_vars, clock>>

AspNext ==
  \/ \E m \in Managers, now \in Times :
       establish_outgoing_session(m, now) /\ UNCHANGED <<dbs_vars, clock>>
  \/ \E m \in Managers, now \in Times, announcement \in AnnouncementReads :
       feed_incoming_announcement(m, announcement, now) /\ UNCHANGED <<dbs_vars, clock>>
  \/ \E m \in Managers, now \in Times :
       send_message(m, now) /\ UNCHANGED <<dbs_vars, clock>>
  \/ \E m \in Managers, now \in Times :
       \E read \in BoardReads(m) :
         /\ feed_incoming_message_board_read(m, read.seeker, read.bytes, now)
         /\ UNCHANGED <<dbs_vars, clock>>

vars == <<dbs_vars, asp_vars>>

Init == DbsInit /\ AspInit

DbsNext ==
  \/ init_storage /\ UNCHANGED asp_vars
  \/ create_session("p") /\ UNCHANGED asp_vars
  \/ \E password \in Passwords : unlock_session(password) /\ UNCHANGED asp_vars
  \/ lock /\ UNCHANGED asp_vars
  \/ \E a \in ReadArgs : read_data(a[1], a[2]) /\ UNCHANGED asp_vars
  \/ \E offset \in 0..MaxOffset, len \in 1..MaxLen :
       write_data(offset, WriteBytes(len)) /\ UNCHANGED asp_vars
  \/ flush_data /\ UNCHANGED asp_vars
  \/ data_size_call /\ UNCHANGED asp_vars

\* the block store alone
SpecDBS == Init /\ [][DbsNext]_vars

\* the block store of a manager that is dropped instead of locked
CrashNext ==
  \/ init_storage /\ UNCHANGED asp_vars
  \/ create_session("p") /\ UNCHANGED asp_vars
  \/ \E password \in Passwords : unlock_session(password) /\ UNCHANGED asp_vars
  \/ drop_manager /\ UNCHANGED asp_vars
  \/ \E a \in ReadArgs : read_data(a[1], a[2]) /\ UNCHANGED asp_vars
  \/ \E offset \in 0..MaxOffset, len \in 1..MaxLen :
       write_data(offset, WriteBytes(len)) /\ UNCHANGED asp_vars
  \/ flush_data /\ UNCHANGED asp_vars

SpecCrash == Init /\ [][CrashNext]_vars

\* the block store with sessions of two passwords, whose slot indices may
\* collide.  The calls respect the state machine (misuse is left to the
\* other specifications), the session of "p" is created first, each session
\* is written once, at offset 0, and what read_data returns is computed in
\* every state instead of called.
InitShared ==
  /\ slot_assignment \in {"distinct", "collide"}
  /\ addressing = [i \in SlotIndices |-> RandomSlot]
  /\ addressing_ready = FALSE
  /\ data_blob = <<>>
  /\ data_size = 0
  /\ session = None
  /\ next_block_id = 1
  /\ ret = Ret("new", "Ok", <<>>)
  /\ hist = HistInit
  /\ AspInit

\* no write_data call has written to the session of the password
Unwritten(password) == \A i \in ShadowPositions : hist.shadow[password][i] = 0

SharedNext ==
  \/ ~addressing_ready /\ init_storage /\ UNCHANGED asp_vars
  \/ IsNone(session) /\ create_session("p") /\ UNCHANGED asp_vars
  \/ /\ IsNone(session)
     /\ hist.creates["p"] > 0
     /\ create_session("q")
     /\ UNCHANGED asp_vars
  \/ \E password \in Passwords :
       IsNone(session) /\ unlock_session(password) /\ UNCHANGED asp_vars
  \/ ~IsNone(session) /\ lock /\ UNCHANGED asp_vars
  \/ /\ ~IsNone(session)
     /\ Unwritten(session.keys)
     /\ write_data(0, WriteBytes(MaxLen))
     /\ UNCHANGED asp_vars
  \/ ~IsNone(session) /\ flush_data /\ UNCHANGED asp_vars

SpecShared == InitShared /\ [][SharedNext]_vars

\* the block store with slots that get corrupted while the session is
\* locked.  The calls respect the state machine, except unlock_session, and
\* the session is written once, at offset 0.
HealNext ==
  \/ ~addressing_ready /\ init_storage /\ UNCHANGED asp_vars
  \/ IsNone(session) /\ create_session("p") /\ UNCHANGED asp_vars
  \/ \E password \in Passwords : unlock_session(password) /\ UNCHANGED asp_vars
  \/ ~IsNone(session) /\ lock /\ UNCHANGED asp_vars
  \/ /\ ~IsNone(session)
     /\ Unwritten(session.keys)
     /\ write_data(0, WriteBytes(MaxLen))
     /\ UNCHANGED asp_vars
  \/ ~IsNone(session) /\ flush_data /\ UNCHANGED asp_vars
  \/ \E positions \in CorruptedSets, kind \in CorruptionKinds :
       corrupt_slots("p", positions, kind) /\ UNCHANGED asp_vars

SpecHeal == Init /\ [][HealNext]_vars

\* the block store of SpecShared with each session closed up to
\* MaxConvergeLocks times, so that a session is unlocked, locked and unlocked
\* again
ConvergeNext ==
  \/ ~addressing_ready /\ init_storage /\ UNCHANGED asp_vars
  \/ IsNone(session) /\ create_session("p") /\ UNCHANGED asp_vars
  \/ \E password \in Passwords :
       IsNone(session) /\ unlock_session(password) /\ UNCHANGED asp_vars
  \/ ~IsNone(session) /\ lock_within(MaxConvergeLocks) /\ UNCHANGED asp_vars
  \/ /\ ~IsNone(session)
     /\ Unwritten(session.keys)
     /\ write_data(0, WriteBytes(MaxLen))
     /\ UNCHANGED asp_vars
  \/ ~IsNone(session) /\ flush_data /\ UNCHANGED asp_vars

SpecConverge == InitShared /\ [][ConvergeNext]_vars

\* the block store of a manager that stops inside write_data, flush_data or
\* lock, under both slot assignments.  The calls respect the state machine,
\* the fresh manager unlocks and reads, and the calls that write are those
\* of the manager that stops; lock writes what flush_data writes.
InterruptNext ==
  \/ ~addressing_ready /\ init_storage /\ UNCHANGED asp_vars
  \/ IsNone(session) /\ create_session("p") /\ UNCHANGED asp_vars
  \/ IsNone(session) /\ unlock_session("p") /\ UNCHANGED asp_vars
  \/ \E offset \in 0..MaxOffset, len \in 1..MaxLen :
       /\ ~IsNone(session)
       /\ hist.drops = 0
       /\ write_data(offset, WriteBytes(len))
       /\ UNCHANGED asp_vars
  \/ ~IsNone(session) /\ hist.drops = 0 /\ flush_data /\ UNCHANGED asp_vars
  \/ \E stage \in FlushStages, blocks \in SUBSET (1..(MaxWrites + 1)),
        n \in 0..MaxSlotPrefix :
       interrupted_flush(stage, blocks, n) /\ UNCHANGED asp_vars
  \/ \E offset \in 0..MaxOffset, len \in 1..MaxLen, m \in 0..MaxLen,
        n \in 0..ParetoMax :
       /\ m <= len
       /\ interrupted_write_data(offset, WriteBytes(len), m, n)
       /\ UNCHANGED asp_vars

SpecInterrupt == InitShared /\ [][InterruptNext]_vars

\* the session protocol alone
SpecASP == Init /\ [][AspNext]_vars

\* the session protocol with enough messages for a session to reach
\* max_session_lag_length after its peer has acknowledged; the clock stands
\* peer_discard: the manager forgets the peer
peer_discard(m) ==
  /\ peers' = [peers EXCEPT ![m] = None]
  /\ aret' = ARet("peer_discard", m, ~IsNone(peers[m]), "")
  /\ UNCHANGED <<announcements, board, accepted>>

LagNext ==
  \/ \E m \in Managers :
       establish_outgoing_session(m, 0) /\ UNCHANGED <<dbs_vars, clock>>
  \/ \E m \in Managers, announcement \in AnnouncementReads :
       feed_incoming_announcement(m, announcement, 0) /\ UNCHANGED <<dbs_vars, clock>>
  \/ \E m \in Managers :
       send_message_within(m, 0, MaxLagSends) /\ UNCHANGED <<dbs_vars, clock>>
  \/ \E m \in Managers :
       \E read \in BoardReads(m) :
         /\ feed_incoming_message_board_read(m, read.seeker, read.bytes, 0)
         /\ UNCHANGED <<dbs_vars, clock>>

SpecLag == Init /\ [][LagNext]_vars

\* the session protocol with sessions that are closed by a refused message
\* or expire, and the status of the peer asked at any point
StatusNext ==
  \/ \E m \in Managers, now \in Times :
       establish_outgoing_session(m, now) /\ UNCHANGED <<dbs_vars, clock>>
  \/ \E m \in Managers, now \in Times, announcement \in AnnouncementReads :
       feed_incoming_announcement(m, announcement, now) /\ UNCHANGED <<dbs_vars, clock>>
  \/ \E m \in Managers, now \in Times :
       refresh(m, now) /\ UNCHANGED <<dbs_vars, clock>>
  \/ \E m \in Managers, now \in Times :
       send_message_within(m, now, MaxStatusSends) /\ UNCHANGED <<dbs_vars, clock>>
  \/ \E m \in Managers, now \in Times :
       \E read \in Posted :
         /\ feed_incoming_message_board_read(m, read.seeker, read.bytes, now)
         /\ UNCHANGED <<dbs_vars, clock>>
  \/ \E m \in Managers :
       peer_session_status(m) /\ UNCHANGED <<dbs_vars, clock>>
  \/ \E m \in Managers :
       get_message_board_read_keys(m) /\ UNCHANGED <<dbs_vars, clock>>

SpecStatus == Init /\ [][StatusNext]_vars

\* a configuration whose announcements outlive an inactive session:
\* max_incoming_announcement_age_millis above max_session_inactivity_millis
LongAnnouncementAge == MaxSessionInactivity + 1

ExpiryNext ==
  \/ \E m \in Managers, now \in Times :
       establish_outgoing_session(m, now) /\ UNCHANGED <<dbs_vars, clock>>
  \/ \E m \in Managers, now \in Times, announcement \in AnnouncementReads :
       /\ feed_incoming_announcement_within(m, announcement, now, LongAnnouncementAge)
       /\ UNCHANGED <<dbs_vars, clock>>
  \/ \E m \in Managers, now \in Times :
       /\ refresh_with(m, now, MaxSessionInactivity, LongAnnouncementAge)
       /\ UNCHANGED <<dbs_vars, clock>>
  \/ \E m \in Managers, now \in Times :
       send_message(m, now) /\ UNCHANGED <<dbs_vars, clock>>
  \/ \E m \in Managers, now \in Times :
       \E read \in Posted :
         /\ feed_incoming_message_board_read(m, read.seeker, read.bytes, now)
         /\ UNCHANGED <<dbs_vars, clock>>
  \/ \E m \in Managers :
       peer_session_status(m) /\ UNCHANGED <<dbs_vars, clock>>

SpecExpiry == Init /\ [][ExpiryNext]_vars

\* announcements, refresh and peer_discard while the clock reads 0
DiscardNext ==
  \/ \E m \in Managers :
       establish_outgoing_session(m, 0) /\ UNCHANGED <<dbs_vars, clock>>
  \/ \E m \in Managers, announcement \in AnnouncementReads :
       feed_incoming_announcement(m, announcement, 0) /\ UNCHANGED <<dbs_vars, clock>>
  \/ \E m \in Managers :
       refresh(m, 0) /\ UNCHANGED <<dbs_vars, clock>>
  \/ \E m \in Managers :
       peer_discard(m) /\ UNCHANGED <<dbs_vars, clock>>
  \/ \E m \in Managers :
       send_message(m, 0) /\ UNCHANGED <<dbs_vars, clock>>
  \/ \E m \in Managers :
       \E read \in Posted :
         /\ feed_incoming_message_board_read(m, read.seeker, read.bytes, 0)
         /\ UNCHANGED <<dbs_vars, clock>>

SpecDiscard == Init /\ [][DiscardNext]_vars

\* time passes
tick ==
  /\ clock < MaxTime
  /\ clock' = clock + 1
  /\ UNCHANGED <<peers, announcements, board, aret, accepted>>

\* sessions established again and again while time passes: every operation
\* reads the clock
AgreeNext ==
  \/ \E m \in Managers :
       /\ establish_outgoing_session_within(m, clock, MaxAgreeAnnouncements)
       /\ UNCHANGED <<dbs_vars, clock>>
  \/ \E m \in Managers, announcement \in AnnouncementReads :
       feed_incoming_announcement(m, announcement, clock) /\ UNCHANGED <<dbs_vars, clock>>
  \/ \E m \in Managers :
       refresh(m, clock) /\ UNCHANGED <<dbs_vars, clock>>
  \/ tick /\ UNCHANGED dbs_vars

SpecAgree == Init /\ [][AgreeNext]_vars
SpecAnn == Init /\ [][AnnNext]_vars

(***************************************************************************)
(* Properties of the session protocol.                                     *)
(***************************************************************************)
\* the pair of the session at the other end
Mirror(pair) == [out |-> pair.in, in |-> pair.out]

IsPrefix(s, t) == Len(s) <= Len(t) /\ \A i \in 1..Len(s) : s[i] = t[i]

\* the contents the peer of m sent on the session at the other end of pair
SentTo(m, pair) ==
  LET sent == SentOn(Peer(m), Mirror(pair))
  IN [i \in 1..Len(sent) |-> sent[i].contents]

\* board[k] was sent to m on its active session
OnSession(m, k) ==
  /\ board[k].owner = Peer(m)
  /\ has_active_session(peers[m])
  /\ peers[m].active_session.session.pair = Mirror(board[k].pair)

\* board[k] is the first message sent to m on its active session that m has
\* not accepted
InOrder(m, k) ==
  /\ OnSession(m, k)
  /\ LET sent == SentOn(Peer(m), board[k].pair)
         next == Len(accepted[m].msgs) + 1
     IN next <= Len(sent) /\ sent[next] = board[k]

\* board[k] is a message sent to m on its active session that m has not accepted
NotYetFed(m, k) ==
  /\ OnSession(m, k)
  /\ LET sent == SentOn(Peer(m), board[k].pair)
     IN \E i \in (Len(accepted[m].msgs) + 1)..Len(sent) : sent[i] = board[k]

our_parent_height(session_) ==
  session_.agraphon_instance.latest_peer_msg.our_parent_height

\* the height, at its receiver m, of the newest message of m that the sender
\* of the entry had fed when it sent it
AcknowledgedHeight(m, entry) ==
  LET key == entry.output.data.message_bytes.p_peer
      sent == SentOn(m, Mirror(entry.pair))
  IN IF key.kind = "ann" THEN 1
     ELSE 1 + Cardinality({i \in 1..Len(sent) : sent[i].n <= key.n})

\* C2 as it is stated: when B feeds a message A sent and B has not accepted,
\* under the seeker B waits on, the session returns the contents and
\* our_parent_height increases.
C2_SendThenFeedBumps ==
  [][\A m \in Managers, now \in Times, k \in 1..Len(board) :
       (/\ NotYetFed(m, k)
        /\ feed_incoming_message_board_read(
             m, next_peer_message_seeker(peers[m].active_session.session),
             board[k].output.data, now))
       => LET session_ == peers[m].active_session.session
              fed == session_try_feed(session_, m,
                                      next_peer_message_seeker(session_),
                                      board[k].output.data)
          IN /\ fed.some
             /\ fed.message = board[k].contents
             /\ our_parent_height(fed.session) > our_parent_height(session_)]_vars

\* C2: when B has accepted every message A sent before m on the session and
\* feeds m under the seeker B waits on, the session returns the contents of m
\* and sets our_parent_height to the height of the newest message of B that
\* A had fed when it sent m, which is never below the height it replaces.
C2_InOrderFeedAcknowledges ==
  [][\A m \in Managers, now \in Times, k \in 1..Len(board) :
       (/\ InOrder(m, k)
        /\ feed_incoming_message_board_read(
             m, next_peer_message_seeker(peers[m].active_session.session),
             board[k].output.data, now))
       => LET session_ == peers[m].active_session.session
              fed == session_try_feed(session_, m,
                                      next_peer_message_seeker(session_),
                                      board[k].output.data)
          IN /\ fed.some
             /\ fed.message = board[k].contents
             /\ our_parent_height(fed.session) = AcknowledgedHeight(m, board[k])
             /\ our_parent_height(fed.session) >= our_parent_height(session_)]_vars

\* B accepted two messages A sent before B fed any: the second left
\* our_parent_height where the first had put it
C2_Witness ==
  /\ aret = ARet("feed_incoming_message_board_read", "B", TRUE, "")
  /\ Len(board) = 2
  /\ accepted["B"].msgs = <<board[1].contents, board[2].contents>>
  /\ has_active_session(peers["B"])
  /\ our_parent_height(peers["B"].active_session.session) = 1

\* C3: whatever the interleaving of the sends of the two sides, a message
\* fed in the order of sending is decrypted by the session, which returns
\* the contents that were sent; the manager returns them unless it refuses
\* the timestamp.
C3_InOrderFeedSucceeds ==
  [][\A m \in Managers, now \in Times, k \in 1..Len(board) :
       (/\ InOrder(m, k)
        /\ feed_incoming_message_board_read(m, board[k].output.seeker,
                                            board[k].output.data, now))
       => LET active_session == peers[m].active_session
              fed == session_try_feed(active_session.session, m,
                                      board[k].output.seeker, board[k].output.data)
              refused ==
                timestamp_rejected(board[k].output.timestamp, now,
                                   active_session.last_incoming_message_timestamp)
          IN /\ fed.some
             /\ fed.message = board[k].contents
             /\ fed.timestamp = board[k].output.timestamp
             /\ aret'.some = ~refused
             /\ ~refused =>
                  accepted'[m].msgs = Append(accepted[m].msgs, board[k].contents)]_vars

\* both sides sent before either fed, and each accepted what the other sent
C3_Witness ==
  /\ Len(board) = 2
  /\ board[1].owner # board[2].owner
  /\ board[1].output.data.message_bytes.p_peer.kind = "ann"
  /\ board[2].output.data.message_bytes.p_peer.kind = "ann"
  /\ \A m \in Managers :
       /\ has_active_session(peers[m])
       /\ Len(accepted[m].msgs) = 1
       /\ accepted[m].msgs = SentTo(m, accepted[m].pair)

\* C4: the contents a manager has accepted on a session are a prefix of the
\* contents its peer sent on that session, in the order of sending: none is
\* accepted twice, none before one sent earlier.
C4_AcceptedIsPrefixOfSent ==
  \A m \in Managers : IsPrefix(accepted[m].msgs, SentTo(m, accepted[m].pair))

\* the one message of the board was accepted, and then refused when its
\* bytes were fed again under the seeker that followed
C4_Witness ==
  \E m \in Managers :
    /\ Len(board) = 1
    /\ accepted[m].msgs = <<board[1].contents>>
    /\ aret = ARet("feed_incoming_message_board_read", m, FALSE, "hash")
    /\ ~has_active_session(peers[m])

\* the checks of the feed that come after the session is found and before
\* the timestamp is looked at, as feed_stage names them
ContentChecks == {"parse", "hash", "signature", "agraphon", "decode"}

\* C6: when feed_incoming_message_board_read has found the session of the
\* seeker and the bytes fail the parsing, the hash check, the signature
\* check, the decryption or the decoding, it returns None and the active
\* session of the peer is gone.
C6_FailedFeedDropsSession ==
  [][\A m \in Managers :
       (/\ aret' = ARet("feed_incoming_message_board_read", m, aret'.some, aret'.stage)
        /\ aret'.stage \in ContentChecks)
       => /\ has_active_session(peers[m])
          /\ ~aret'.some
          /\ ~IsNone(peers'[m])
          /\ IsNone(peers'[m].active_session)
          /\ accepted' = accepted]_vars

\* bytes that decrypted and held no Message closed a session that had
\* accepted a message
C6_Witness ==
  \E m \in Managers :
    /\ aret = ARet("feed_incoming_message_board_read", m, FALSE, "decode")
    /\ ~IsNone(peers[m])
    /\ IsNone(peers[m].active_session)
    /\ Len(accepted[m].msgs) = 1

\* C7: a message its session decrypts and decodes, with a timestamp older
\* than now minus max_incoming_message_age, newer than now plus
\* max_incoming_message_future, or earlier than the last timestamp accepted
\* on the session, is refused: the feed returns None and the session is gone.
C7_BadTimestampDropsSession ==
  [][\A m \in Managers :
       (/\ aret' = ARet("feed_incoming_message_board_read", m, aret'.some, aret'.stage)
        /\ aret'.stage \in {"age", "future", "order"})
       => /\ has_active_session(peers[m])
          /\ ~aret'.some
          /\ ~IsNone(peers'[m])
          /\ IsNone(peers'[m].active_session)
          /\ accepted' = accepted]_vars

\* a message inside the window of the clock was refused for being earlier
\* than the message accepted before it
C7_Witness ==
  \E m \in Managers :
    /\ aret = ARet("feed_incoming_message_board_read", m, FALSE, "order")
    /\ ~IsNone(peers[m])
    /\ IsNone(peers[m].active_session)
    /\ Len(accepted[m].msgs) = 1

both_stored(peer_info) ==
  /\ ~IsNone(peer_info)
  /\ ~IsNone(peer_info.latest_incoming_init_request)
  /\ ~IsNone(peer_info.latest_outgoing_init_request)

\* the session is the one a pair of announcements starts with, nothing sent
\* and nothing fed, and carries the timestamps of the two announcements
fresh_from(active_session, outgoing, incoming) ==
  /\ ~IsNone(active_session)
  /\ active_session.session.pair = [out |-> outgoing.n, in |-> incoming.n]
  /\ active_session.session.agraphon_instance =
       from_announcement_pair(outgoing.agraphon_announcement,
                              incoming.agraphon_announcement)
  /\ active_session.session.peer = incoming.origin
  /\ active_session.session.peer_seeker_massa_keypair =
       SeekerKey("kdf", incoming.origin, incoming.n, outgoing.n)
  /\ active_session.session.self_seeker_massa_keypair =
       SeekerKey("kdf", outgoing.owner, outgoing.n, incoming.n)
  /\ active_session.last_incoming_message_timestamp = incoming.timestamp_millis
  /\ active_session.last_outgoing_message_timestamp = outgoing.timestamp_millis

FedOn(m) ==
  LET sent == SentOn(Peer(m), Mirror(peers[m].active_session.session.pair))
  IN SubSeq(sent, 1, Len(accepted[m].msgs))

\* the number of messages m sent on its active session that no message fed
\* on it names, or follows, as its parent; the i-th message has height i + 1
Unacknowledged(m) ==
  LET sent == SentOn(m, peers[m].active_session.session.pair)
      fed == FedOn(m)
  IN Cardinality({i \in 1..Len(sent) :
                    \A j \in 1..Len(fed) : AcknowledgedHeight(m, fed[j]) < i + 1})

LastAccepted(m) ==
  LET msgs == accepted[m].msgs
  IN board[CHOOSE k \in 1..Len(board) : board[k].contents = msgs[Len(msgs)]]

\* C21: lag_length grows by exactly one on every send; no feed, accepted or
\* refused, leaves the session with a greater lag; and a feed that is
\* accepted and names as parent a message above the parent height held
\* before leaves it with a smaller lag.
C21_LagUnderSendAndFeed ==
  /\ [](\A m \in Managers :
          has_active_session(peers[m]) =>
            \A read \in BoardReads(m) :
              session_lag_length(
                session_try_feed(peers[m].active_session.session, m,
                                 read.seeker, read.bytes).session)
                <= session_lag_length(peers[m].active_session.session))
  /\ [][\A m \in Managers :
          /\ (aret' = ARet("send_message", m, TRUE, "")) =>
               session_lag_length(peers'[m].active_session.session)
                 = session_lag_length(peers[m].active_session.session) + 1
          /\ (aret' = ARet("feed_incoming_message_board_read", m, TRUE, "")) =>
               LET before == peers[m].active_session.session
                   after == peers'[m].active_session.session
               IN /\ session_lag_length(after) <= session_lag_length(before)
                  /\ (AcknowledgedHeight(m, LastAccepted(m)')
                        > our_parent_height(before)) =>
                       session_lag_length(after) < session_lag_length(before)]_vars

\* a manager accepted a message that names the message it had sent as its
\* parent: the lag fell from 1 to 0
C21_Witness ==
  \E m \in Managers :
    /\ aret = ARet("feed_incoming_message_board_read", m, TRUE, "")
    /\ Len(SentOn(m, peers[m].active_session.session.pair)) = 1
    /\ AcknowledgedHeight(m, LastAccepted(m)) = 2
    /\ session_lag_length(peers[m].active_session.session) = 0

\* C22: the sent-message history of an active session never holds more
\* than max_session_lag_length + 1 items, whatever is fed to the session.
C22_HistoryBoundedByLag ==
  \A m \in Managers :
    has_active_session(peers[m]) =>
      Len(peers[m].active_session.session.agraphon_instance.self_msg_history)
        <= MaxSessionLagLength + 1

\* a session whose peer acknowledged the announcement holds
\* max_session_lag_length + 1 items, and its next send is refused
C22_Witness ==
  \E m \in Managers :
    /\ aret = ARet("send_message", m, FALSE, "")
    /\ has_active_session(peers[m])
    /\ Len(peers[m].active_session.session.agraphon_instance.self_msg_history)
         = MaxSessionLagLength + 1

\* the rows of the status table: [session, lag, incoming, outgoing] of the
\* entry, session "absent" when the manager has no entry for the peer
StatusRow(peer_info) ==
  IF IsNone(peer_info)
  THEN [session |-> "absent", saturated |-> FALSE, incoming |-> FALSE, outgoing |-> FALSE]
  ELSE [session |-> IF IsNone(peer_info.active_session) THEN "none" ELSE "some",
        saturated |-> /\ ~IsNone(peer_info.active_session)
                      /\ session_lag_length(peer_info.active_session.session)
                           >= MaxSessionLagLength,
        incoming |-> ~IsNone(peer_info.latest_incoming_init_request),
        outgoing |-> ~IsNone(peer_info.latest_outgoing_init_request)]

StatusOfRow(row) ==
  CASE row.session = "absent" -> "UnknownPeer"
    [] row.session = "some" /\ row.saturated -> "Saturated"
    [] row.session = "some" /\ ~row.saturated -> "Active"
    [] row.session = "none" /\ row.incoming /\ row.outgoing -> "Killed"
    [] row.session = "none" /\ row.incoming /\ ~row.outgoing -> "PeerRequested"
    [] row.session = "none" /\ ~row.incoming /\ row.outgoing -> "SelfRequested"
    [] row.session = "none" /\ ~row.incoming /\ ~row.outgoing -> "NoSession"

ExpectedSeekers(m) ==
  IF has_active_session(peers[m])
  THEN {compute_seeker(peers[m].active_session.session.peer_seeker_massa_keypair)}
  ELSE {}

\* C24: get_message_board_read_keys returns one seeker per active session,
\* the seeker that session waits on, and feed_incoming_message_board_read
\* under a seeker no active session waits on returns None and changes
\* nothing.
C24_UnknownSeekerChangesNothing ==
  /\ [](aret.op = "get_message_board_read_keys" =>
          /\ Len(aret.keys) = Cardinality(ExpectedSeekers(aret.m))
          /\ {aret.keys[i] : i \in 1..Len(aret.keys)} = ExpectedSeekers(aret.m))
  /\ [][\A m \in Managers, now \in Times, read \in Posted :
          (/\ read.seeker \notin ExpectedSeekers(m)
           /\ feed_incoming_message_board_read(m, read.seeker, read.bytes, now))
          => /\ ~aret'.some
             /\ peers' = peers
             /\ announcements' = announcements
             /\ board' = board
             /\ accepted' = accepted]_vars

\* a manager with an active session that had accepted a message was fed a
\* message under a seeker it does not wait on, and kept the session
C24_Witness ==
  \E m \in Managers :
    /\ aret = ARet("feed_incoming_message_board_read", m, FALSE, "seeker")
    /\ has_active_session(peers[m])
    /\ accepted[m].msgs # <<>>

\* C25: refresh removes the active session exactly when its last incoming
\* timestamp is older than now - max_session_inactivity, removes a stored
\* announcement exactly when its timestamp is older than
\* now - max_incoming_announcement_age, leaves everything else as it was,
\* and reports the peer exactly when it still has an active session whose
\* last outgoing timestamp is older than now - keep_alive_interval.
C25_RefreshExpiresExactly ==
  [][\A m \in Managers, now \in Times :
       (refresh(m, now) /\ ~IsNone(peers[m])) =>
         LET before == peers[m]
             after == peers'[m]
             old_session ==
               /\ ~IsNone(before.active_session)
               /\ before.active_session.last_incoming_message_timestamp
                    < now - MaxSessionInactivity
             old(request) ==
               /\ ~IsNone(request)
               /\ request.timestamp_millis < now - MaxIncomingAnnouncementAge
         IN /\ after.active_session =
                 IF old_session THEN None ELSE before.active_session
            /\ after.latest_incoming_init_request =
                 IF old(before.latest_incoming_init_request) THEN None
                 ELSE before.latest_incoming_init_request
            /\ after.latest_outgoing_init_request =
                 IF old(before.latest_outgoing_init_request) THEN None
                 ELSE before.latest_outgoing_init_request
            /\ peers'[Peer(m)] = peers[Peer(m)]
            /\ announcements' = announcements
            /\ board' = board
            /\ aret'.some <=>
                 /\ ~IsNone(after.active_session)
                 /\ after.active_session.last_outgoing_message_timestamp
                      < now - KeepAliveInterval]_vars

\* refresh removed both announcements and kept the session, which had
\* accepted a message since, and reported the peer for a keep-alive
C25_Witness ==
  \E m \in Managers :
    /\ aret = ARet("refresh", m, TRUE, "")
    /\ has_active_session(peers[m])
    /\ IsNone(peers[m].latest_incoming_init_request)
    /\ IsNone(peers[m].latest_outgoing_init_request)
    /\ accepted[m].msgs # <<>>

\* the messages m sent on its active session that the peer had fed when it
\* sent the entry
FedByPeerBefore(m, entry) ==
  LET key == entry.output.data.message_bytes.p_peer
  IN IF key.kind = "ann" THEN <<>>
     ELSE SelectSeq(SentOn(m, Mirror(entry.pair)), LAMBDA sent : sent.n <= key.n)

\* C26: when the peer has fed the messages m1..mk of a manager in order and
\* then sends a reply the manager accepts, the seekers the feeds of the
\* manager have reported as acknowledged on the session contain the seeker
\* of every one of m1..mk.
C26_AcknowledgedSeekersComplete ==
  \A m \in Managers :
    has_active_session(peers[m]) =>
      \A j \in 1..Len(FedOn(m)) :
        LET fed_by_peer == FedByPeerBefore(m, FedOn(m)[j])
        IN \A i \in 1..Len(fed_by_peer) :
             fed_by_peer[i].output.seeker \in accepted[m].acked

\* the peer fed two messages of the manager and replied, and the manager
\* accepted the reply
C26_Witness ==
  \E m \in Managers :
    /\ aret = ARet("feed_incoming_message_board_read", m, TRUE, "")
    /\ has_active_session(peers[m])
    /\ Len(FedByPeerBefore(m, LastAccepted(m))) = 2
    /\ Cardinality({FedByPeerBefore(m, LastAccepted(m))[i].output.seeker :
                      i \in 1..2}) = 2

\* the highest end offset of the writes made under the password, 0 when
\* nothing was written; every byte written is non-zero
HighestWritten(password) ==
  LET written == {i \in ShadowPositions : hist.shadow[password][i] # 0}
  IN IF written = {} THEN 0
     ELSE 1 + CHOOSE i \in written : \A j \in written : j <= i

\* C27: data_size() of an unlocked session is the highest end offset of the
\* writes made to the session, 0 when nothing was written, also for writes
\* made before the session was locked and unlocked again.
C27_DataSizeIsHighestWritten ==
  (ret.op = "data_size" /\ ret.result = "Ok") =>
    ret.out = <<HighestWritten(session.keys)>>

\* what does hold: in a session that was not locked since it was created,
\* data_size() is the highest end offset written
DataSizeBeforeLock ==
  (ret.op = "data_size" /\ ret.result = "Ok" /\ hist.never_locked) =>
    ret.out = <<HighestWritten(session.keys)>>

\* the logical offsets the entry covers
RangeOf(entry) ==
  entry.inner_data_offset..(entry.inner_data_offset + entry.inner_length - 1)

\* C28: every entry of the allocation table of a session covers a non-empty
\* logical range, and the ranges of distinct entries are disjoint: each
\* logical offset is covered by at most one block.
C28_AllocationRangesDisjoint ==
  ~IsNone(session) =>
    LET table == session.block_manager.allocation_table
    IN /\ \A i \in 1..Len(table) : RangeOf(table[i]) # {}
       /\ \A i, j \in 1..Len(table) :
            i # j => RangeOf(table[i]) \cap RangeOf(table[j]) = {}

\* what does hold: every entry covers a non-empty range
AllocationRangesNonEmpty ==
  ~IsNone(session) =>
    \A i \in 1..Len(session.block_manager.allocation_table) :
      RangeOf(session.block_manager.allocation_table[i]) # {}

\* the ciphertext is that of a data block, of a root block
IsDataBlock(ciphertext) == ciphertext.key[1] = "block"

IsRootBlock(ciphertext) == ciphertext.key[1] = "root"

\* C29: the data file only grows.  Its size never decreases; a data block
\* in the file stays at its address with its encrypted length; what is
\* written at a new address lies behind fresh padding after the old end of
\* the file, and a flush writes only root blocks there; a flush that
\* follows no block allocation leaves the size of the file as it was.
C29_DataFileOnlyGrows ==
  [][/\ data_size' >= data_size
     /\ \A a \in DOMAIN data_blob :
          IsDataBlock(data_blob[a]) =>
            /\ a \in DOMAIN data_blob'
            /\ data_blob'[a].key = data_blob[a].key
            /\ data_blob'[a].len = data_blob[a].len
     /\ \A a \in DOMAIN data_blob' \ DOMAIN data_blob :
          /\ a >= data_size + ParetoMin
          /\ ret'.op \in {"flush_data", "lock"} => IsRootBlock(data_blob'[a])
     /\ (/\ ret'.op \in {"flush_data", "lock"}
         /\ ~IsNone(session)
         /\ ~session.block_manager.allocation_table_dirty) =>
          data_size' = data_size]_vars

\* flush_data wrote a block with data back at its address and moved the
\* root block behind it
C29_Witness ==
  /\ ret = Ret("flush_data", "Ok", <<SLOTS_PER_SESSION>>)
  /\ ~IsNone(session)
  /\ \E i \in 1..Len(session.block_manager.allocation_table) :
       LET entry == session.block_manager.allocation_table[i]
       IN /\ entry.address \in DOMAIN data_blob
          /\ IsDataBlock(data_blob[entry.address])
          /\ data_blob[entry.address].len = entry.outer_length
          /\ session.block_manager.root_address > entry.address
          /\ hist.shadow[session.keys][entry.inner_data_offset] # 0

\* the heights of the history increase by exactly one from front to back
ConsecutiveHeights(history) ==
  \A i \in 1..(Len(history) - 1) : history[i + 1].height = history[i].height + 1

\* C30: whatever was sent and fed, accepted or refused, the sent-message
\* history of a session is non-empty and its heights increase by exactly
\* one from front to back, so the last item that send_outgoing_message and
\* lag_length read is there.
C30_HistoryNonEmptyConsecutive ==
  \A m \in Managers :
    has_active_session(peers[m]) =>
      LET history == peers[m].active_session.session.agraphon_instance.self_msg_history
      IN /\ history # <<>>
         /\ ConsecutiveHeights(history)

\* an accepted message pruned the history of a manager, which keeps the
\* acknowledged message and one sent after it
C30_Witness ==
  \E m \in Managers :
    /\ aret = ARet("feed_incoming_message_board_read", m, TRUE, "")
    /\ LET history == peers[m].active_session.session.agraphon_instance.self_msg_history
       IN /\ Len(history) >= 2
          /\ history[1].height >= 2
          /\ our_parent_height(peers[m].active_session.session) = history[1].height

\* the sent-message history of the active session of m
History(m) == peers[m].active_session.session.agraphon_instance.self_msg_history

\* the greatest height of m that a message fed on its active session names
\* as parent, 0 when no message was fed
NewestAcknowledged(m) ==
  LET fed == FedOn(m)
      heights == {AcknowledgedHeight(m, fed[j]) : j \in 1..Len(fed)}
  IN IF heights = {} THEN 0 ELSE CHOOSE h \in heights : \A g \in heights : g <= h

\* the height of the latest message of m on its active session: the
\* announcement has height 1, the i-th message sent has height i + 1
LatestSent(m) == 1 + Len(SentOn(m, peers[m].active_session.session.pair))

\* C31 as it is stated: the front item of the history is the oldest message
\* the peer has not acknowledged, when there is one, and the back item is
\* the latest message sent.
C31_FrontIsOldestUnacknowledged ==
  \A m \in Managers :
    has_active_session(peers[m]) =>
      /\ History(m)[Len(History(m))].height = LatestSent(m)
      /\ NewestAcknowledged(m) < LatestSent(m) =>
           History(m)[1].height = NewestAcknowledged(m) + 1

\* C31: the back item of the history is the latest message sent; the front
\* item is the announcement until a message of the peer is fed, and from
\* then on the newest message the peer acknowledged, which stays in the
\* history as the parent of the messages of the peer to come.
C31_FrontIsNewestAcknowledged ==
  \A m \in Managers :
    has_active_session(peers[m]) =>
      /\ History(m)[Len(History(m))].height = LatestSent(m)
      /\ History(m)[1].height
           = (IF FedOn(m) = <<>> THEN 1 ELSE NewestAcknowledged(m))

\* the peer acknowledged the second of three messages of a manager: the
\* history holds the second and the third
C31_Witness ==
  \E m \in Managers :
    /\ has_active_session(peers[m])
    /\ FedOn(m) # <<>>
    /\ LatestSent(m) = 4
    /\ NewestAcknowledged(m) = 3
    /\ Len(History(m)) = 2

\* C32: a feed of the session that returns none leaves the session as it
\* was: the history, latest_peer_msg and the seeker the peer is expected
\* under.
C32_RefusedFeedLeavesSession ==
  \A m \in Managers :
    has_active_session(peers[m]) =>
      \A read \in BoardReads(m) :
        LET session_ == peers[m].active_session.session
            fed == session_try_feed(session_, m, read.seeker, read.bytes)
        IN ~fed.some =>
             /\ fed.session.agraphon_instance = session_.agraphon_instance
             /\ next_peer_message_seeker(fed.session)
                  = next_peer_message_seeker(session_)

\* what holds in its place: the session is as it was after a refused feed
\* of bytes whose payload, were it decrypted, is a Message
RefusedMessageLeavesSession ==
  \A m \in Managers :
    has_active_session(peers[m]) =>
      \A read \in BoardReads(m) :
        LET session_ == peers[m].active_session.session
            fed == session_try_feed(session_, m, read.seeker, read.bytes)
        IN (~fed.some /\ read.bytes.message_bytes.payload.decodes) =>
             fed.session = session_

\* the seekers the session of m reports as newly acknowledged when it is
\* fed the entry of the board
NewlyAcknowledged(m, entry) ==
  agraphon_try_feed(peers[m].active_session.session.agraphon_instance, m,
                    entry.output.data.message_bytes).newly_acknowledged_self_seekers

\* C33: the seeker of a message sent on a session is reported as newly
\* acknowledged by at most one accepted feed of the session: no accepted
\* feed reports the seeker of a sent message that an earlier one reported.
C33_AcknowledgedOnce ==
  [][\A m \in Managers :
       (aret' = ARet("feed_incoming_message_board_read", m, TRUE, "")) =>
         LET reported == NewlyAcknowledged(m, LastAccepted(m)')
         IN \A i \in 1..Len(reported) :
              reported[i] # EmptySeeker => reported[i] \notin accepted[m].acked]_vars

\* our_parent_height is at most the height of the latest message sent
ParentHeightWithinHistory(agraphon) ==
  agraphon.latest_peer_msg.our_parent_height
    <= agraphon.self_msg_history[Len(agraphon.self_msg_history)].height

\* C34: latest_peer_msg.our_parent_height is at most the height of the
\* latest sent message in every state of a session, and in the state any
\* feed, accepted or refused, leaves it in: the subtraction of lag_length
\* never goes below zero.
C34_ParentHeightAtMostLatest ==
  \A m \in Managers :
    has_active_session(peers[m]) =>
      LET session_ == peers[m].active_session.session
      IN /\ ParentHeightWithinHistory(session_.agraphon_instance)
         /\ session_lag_length(session_) >= 0
         /\ \A read \in BoardReads(m) :
              ParentHeightWithinHistory(
                session_try_feed(session_, m, read.seeker, read.bytes)
                  .session.agraphon_instance)

\* a manager that has sent no message accepted a message that names its
\* announcement as parent: both heights are 1 and the lag is 0
C34_Witness ==
  \E m \in Managers :
    /\ aret = ARet("feed_incoming_message_board_read", m, TRUE, "")
    /\ has_active_session(peers[m])
    /\ SentOn(m, peers[m].active_session.session.pair) = <<>>
    /\ our_parent_height(peers[m].active_session.session) = 1
    /\ session_lag_length(peers[m].active_session.session) = 0

\* C35: the status of a peer becomes Killed only in a step that closes its
\* active session because a message fed on it failed validation; no
\* refresh and no other operation turns a status into Killed, and a peer
\* starts with another status.
C35_KilledOnlyByFailedFeed ==
  /\ [](aret.op = "new" =>
          \A m \in Managers : session_status(peers[m]) # "Killed")
  /\ [][\A m \in Managers :
          (/\ session_status(peers'[m]) = "Killed"
           /\ session_status(peers[m]) # "Killed") =>
            /\ aret'.op = "feed_incoming_message_board_read"
            /\ aret'.m = m
            /\ ~aret'.some
            /\ has_active_session(peers[m])]_vars

\* C36: the timestamps of the announcements a manager accepts from its peer
\* are strictly increasing: an accepted announcement is stamped later than
\* every announcement the manager accepted before it, whatever
\* establish_outgoing_session, refresh and peer_discard did in between.
C36_AcceptedAnnouncementsIncrease ==
  [][\A m \in Managers :
       (aret' = ARet("feed_incoming_announcement", m, TRUE, "")) =>
         peers'[m].latest_incoming_init_request.timestamp_millis
           > accepted[m].announced]_vars

\* every manager has created an announcement, and every announcement
\* created has been fed to the manager it was made for within its window
AllAnnouncementsFed ==
  /\ \A m \in Managers : CountOf(announcements, m) >= 1
  /\ \A k \in 1..Len(announcements) :
       announcements[k].n \in accepted[Peer(announcements[k].owner)].fed

\* both managers hold the session of their latest announcements, and each
\* accepts the message the other would send
SessionsAgree ==
  /\ \A m \in Managers : has_active_session(peers[m])
  /\ \A m \in Managers :
       LET session_ == peers[m].active_session.session
           peer_session == peers[Peer(m)].active_session.session
           sent == session_send(session_, m, 1, <<m, 1>>, clock).output
       IN /\ session_.pair = [out |-> CountOf(announcements, m),
                              in |-> CountOf(announcements, Peer(m))]
          /\ session_try_feed(peer_session, Peer(m), sent.seeker, sent.data).some

\* C37: when the last announcement created reaches the other side, so that
\* every announcement created has been fed within its window, both managers
\* hold an active session of the pair of their latest announcements and
\* each accepts a message the other sends.
C37_SessionsAgreeOnceFed ==
  [][(~AllAnnouncementsFed /\ AllAnnouncementsFed') => SessionsAgree']_vars

\* the announcements of one manager carry increasing timestamps
DistinctStamps ==
  \A j, k \in 1..Len(announcements) :
    (j < k /\ announcements[j].owner = announcements[k].owner) =>
      announcements[j].timestamp_millis < announcements[k].timestamp_millis

\* the same, for announcements made at different readings of the clock; it
\* fails as well, when a refresh drops a stored request between the feeds
SessionsAgreeWithDistinctStamps ==
  [][(~AllAnnouncementsFed /\ AllAnnouncementsFed' /\ DistinctStamps') =>
       SessionsAgree']_vars

\* C38: lock followed by unlock_session with the same password changes
\* nothing a read can see: every read_data(offset, len) returns what it
\* returned just before the lock, whatever was written and flushed before.
C38_LockUnlockTransparent ==
  (~IsNone(session) /\ hist.reopened) => AllReads = hist.lock_view.reads

\* after writes that were flushed, a lock and an unlock_session, read_data
\* returned bytes that had been written
C38_Witness ==
  /\ ~IsNone(session)
  /\ hist.reopened
  /\ hist.lock_view.flushed
  /\ ~hist.lock_view.pending
  /\ ret.op = "read_data"
  /\ ret.result = "Ok"
  /\ \E i \in 1..Len(ret.out) : ret.out[i] # 0
  /\ <<ret.out>> \in {<<hist.lock_view.reads[a]>> : a \in ReadArgs}


\* C39: self-healing converges: when unlock_session succeeds, lock is the
\* next call and unlock_session with the same password the call after it, this
\* second unlock_session finds no corrupted position and leaves the
\* addressing file as it is, under every slot assignment.
C39_HealingConverges ==
  [][(/\ ret.op = "lock" /\ hist.lock_view.after_unlock
      /\ ret'.op = "unlock_session" /\ ret'.result = "Ok"
      /\ ret'.out[1] = hist.lock_view.password) =>
       (ret'.out[4] = 0 /\ addressing' = addressing)]_vars

\* the same, for the keys whose positions all have a slot of their own
HealingConvergesWithoutCollision ==
  [][(/\ ret.op = "lock" /\ hist.lock_view.after_unlock
      /\ ret'.op = "unlock_session" /\ ret'.result = "Ok"
      /\ ret'.out[1] = hist.lock_view.password
      /\ slot_assignment = "distinct") =>
       (ret'.out[4] = 0 /\ addressing' = addressing)]_vars


\* the session of the fresh manager is the one a manager stopped in, not
\* written since
Resumed == ~IsNone(session) /\ hist.recovered

\* C40: interruption safety.  When the manager stops after any prefix of
\* the file writes of write_data, flush_data or lock, unlock_session with
\* the password of its session succeeds on a fresh manager, and every byte
\* covered by the last flush_data or lock that returned and not written
\* since is read back as it was written, 0 where nothing was written.
C40_InterruptionSafe ==
  /\ (/\ ret.op = "unlock_session"
      /\ ret.result # "AlreadyUnlocked"
      /\ ret.out[1] = hist.dropped) => ret.result = "Ok"
  /\ (Resumed /\ hist.persisted[session.keys].op \in {"flush_data", "lock"}) =>
       \A a \in ReadArgs : \A i \in 1..a[2] :
         (a[1] + i - 1) \notin hist.torn =>
           AllReads[a][i] = hist.persisted[session.keys].shadow[a[1] + i - 1]

\* the manager stopped between the slot writes of a flush_data that moved
\* the root block, with a write not covered by a flush that returned, and
\* the fresh manager unlocked the session
StoppedBetweenSlotWrites ==
  /\ Resumed
  /\ hist.persisted[session.keys].op = "flush_data"
  /\ hist.torn # {}
  /\ hist.torn # ShadowPositions
  /\ slot_assignment = "distinct"
  /\ ret.op = "unlock_session"
  /\ ret.out[4] > 0


\* what fails of C40 is what read_data returns of a gap or of overlapping
\* blocks, stop or no stop: unlock_session succeeds after every stop
StoppedSessionUnlocks ==
  (/\ ret.op = "unlock_session"
   /\ ret.result # "AlreadyUnlocked"
   /\ ret.out[1] = hist.dropped) => ret.result = "Ok"

\* no two entries of the allocation table cover one logical offset
DisjointBlocks(table) ==
  \A i, j \in 1..Len(table) :
    i # j => (\/ end_offset(table[i]) <= table[j].inner_data_offset
              \/ end_offset(table[j]) <= table[i].inner_data_offset)

\* and read_data returns of the bytes not written since the last flush
\* what it returned then, as long as the blocks of the session are disjoint
DisjointBlocksSurviveStop ==
  (/\ Resumed
   /\ hist.persisted[session.keys].op \in {"flush_data", "lock"}
   /\ DisjointBlocks(session.block_manager.allocation_table)) =>
    \A a \in ReadArgs : \A i \in 1..a[2] :
      (a[1] + i - 1) \notin hist.torn =>
        AllReads[a][i] = hist.persisted[session.keys].reads[a][i]

====
